---------------------------- MODULE Spec2Model ----------------------------
(***************************************************************************)
(* A model of btree-db: a single-file, disk-backed B+-tree with a page     *)
(* cache (Pager), typed page views (Node), a Table facade, a Cursor that   *)
(* inserts and scans, and the REPL loop that flushes before every prompt.  *)
(*                                                                         *)
(* A page is modelled by its decoded fields.  The key-slot array of a leaf *)
(* keeps the slots that lie beyond the cell count (bytes left behind by a  *)
(* split, or never written and therefore zero), because the code reads     *)
(* them.  A value blob is modelled by its length and a tag standing for    *)
(* its bytes.  Sizes and offsets are the ones of layout.rs.                *)
(***************************************************************************)
EXTENDS Integers, Sequences, FiniteSets, TLC

(***************************************************************************)
(* Bounds of the model.                                                    *)
(***************************************************************************)
\* keys offered to insert are 0..MaxKey
MaxKey == 4
\* an insert is only followed while it leaves num_pages <= MaxPages
MaxPages == 5
\* the cascade of splits is followed for keys 1..MaxAscending
MaxAscending == 257
\* with values of which one fills a leaf, the keys run from 0 to MaxKeyOneCell
MaxKeyOneCell == 3
\* and inserts are followed for as long as the file has at most this many pages
MaxPagesOneCell == 7
\* a host of the table allocates pages for as long as there are at most this many
MaxPagesHost == 4
\* and inserts rows under the keys from 0 to MaxKeyHost
MaxKeyHost == 1
\* the calls on single nodes use the keys from 0 to MaxKeyNode
MaxKeyNode == 3
\* on at most this many pages
MaxPagesNode == 2

(***************************************************************************)
(* layout.rs                                                               *)
(***************************************************************************)
PAGE_SIZE == 4096
PAGE_MAGIC == 65210
PAGE_MAGIC_SIZE == 8
PAGE_TYPE_SIZE == 1
PAGE_IS_ROOT_SIZE == 1
PAGE_MAGIC_OFFSET == 0
PAGE_TYPE_OFFSET == PAGE_MAGIC_OFFSET + PAGE_MAGIC_SIZE
PAGE_IS_ROOT_OFFSET == PAGE_TYPE_OFFSET + PAGE_TYPE_SIZE
PAGE_HEADERS_SIZE == PAGE_MAGIC_SIZE + PAGE_TYPE_SIZE + PAGE_IS_ROOT_SIZE
U64_SIZE == 8
INTERNAL_HEADER_SIZE == PAGE_HEADERS_SIZE + U64_SIZE + U64_SIZE
INTERNAL_CELL_SIZE == U64_SIZE + U64_SIZE
INTERNAL_SPACE_FOR_CELLS == PAGE_SIZE - INTERNAL_HEADER_SIZE
INTERNAL_MAX_KEYS == INTERNAL_SPACE_FOR_CELLS \div INTERNAL_CELL_SIZE
LEAF_HEADER_SIZE == PAGE_HEADERS_SIZE + U64_SIZE + U64_SIZE + U64_SIZE + U64_SIZE + U64_SIZE
LEAF_CELL_HAS_OVERFLOW_FLAG_SIZE == 1
LEAF_KEY_INDENTIFIER_OFFSET == LEAF_CELL_HAS_OVERFLOW_FLAG_SIZE
LEAF_KEY_CELL_SIZE == LEAF_CELL_HAS_OVERFLOW_FLAG_SIZE + U64_SIZE + U64_SIZE
LEAF_CONTENT_LEN_SIZE == 8
\* u64::MAX, the "none" pointer.  It is written -1 (all ones): only its being
\* different from every page number matters.
LEAF_NEXT_SIBLING_POINTER_DEFAULT == -1
LEAF_OVERFLOW_POINTER_DEFAULT == -1

(***************************************************************************)
(* page.rs                                                                 *)
(***************************************************************************)
\* PageType as u8
Leaf == 10
Internal == 11

\* bool_to_u8: true is written as 0x0 and false as 0x1
bool_to_u8(v) == IF v THEN 0 ELSE 1

\* u8_to_bool: Ok(true) for 0x0, Ok(false) for 0x1, Err otherwise
u8_to_bool(v) ==
    CASE v = 0 -> "true"
      [] v = 1 -> "false"
      [] OTHER -> "Err"

\* [0x0; PAGE_SIZE] decoded: every field zero, no slot and no cell written.
\* val_low is the lowest offset at which the page's bytes ever held a value
\* blob: the bytes below it, outside the written slots, are zero.
ZeroPage ==
    [magic |-> 0, kind |-> 0, is_root |-> 0, overflow |-> 0, next_sibling |-> 0,
     num_cells |-> 0, free_start |-> 0, free_end |-> 0, slots |-> << >>,
     right_child |-> 0, cells |-> << >>, val_low |-> PAGE_SIZE]

\* PageBuilder::default().kind(kind).is_root(is_root).build() without content
BuildPage(kind, is_root) ==
    LET base == [ZeroPage EXCEPT !.magic = PAGE_MAGIC, !.kind = kind,
                                 !.is_root = bool_to_u8(is_root)]
    IN  IF kind = Leaf
        THEN [base EXCEPT !.free_start = LEAF_HEADER_SIZE,
                          !.free_end = PAGE_SIZE,
                          !.next_sibling = LEAF_NEXT_SIBLING_POINTER_DEFAULT,
                          !.overflow = LEAF_OVERFLOW_POINTER_DEFAULT]
        ELSE base

\* PageBuilder::default().content(c).is_root(is_root).kind(kind).build():
\* content_set, so the leaf defaults are not written again
BuildPageFrom(c, kind, is_root) ==
    [c EXCEPT !.magic = PAGE_MAGIC, !.kind = kind, !.is_root = bool_to_u8(is_root)]

(***************************************************************************)
(* btree.rs: Node, a typed view of one page.  The operators take the page  *)
(* (or the split buffer) they read and return the page they leave behind.  *)
(***************************************************************************)
\* Op(val), with val worked out once, before Op looks at it: a step of a
\* function, followed by the steps that use its result
Bind(val, Op(_)) == CHOOSE r \in {Op(x) : x \in {val}} : TRUE

\* the 17 bytes of key slot i of a leaf page; zero where never written
ZeroSlot == [overflow |-> 0, key |-> 0, ptr |-> 0, len |-> 0, val |-> "none"]

SlotAt(p, i) == IF i < Len(p.slots) THEN p.slots[i + 1] ELSE ZeroSlot

\* the 16 bytes of cell i of an internal page; zero where never written
ZeroCell == [key |-> 0, pointer |-> 0]

CellAt(p, i) == IF i < Len(p.cells) THEN p.cells[i + 1] ELSE ZeroCell

calculate_cell_position(p, num) ==
    IF p.kind = Leaf THEN LEAF_HEADER_SIZE + num * LEAF_KEY_CELL_SIZE
    ELSE INTERNAL_HEADER_SIZE + num * INTERNAL_CELL_SIZE

\* get_cell_key at the position of cell i
get_cell_key(p, i) == IF p.kind = Leaf THEN SlotAt(p, i).key ELSE CellAt(p, i).key

\* the loop on a leaf as it would be without the return on an equal key: it
\* goes on to the right of the key.  C31 is checked against it.
RECURSIVE LeafSearch_PastEqual(_, _, _, _)
LeafSearch_PastEqual(p, key, min_idx, max_idx) ==
    IF min_idx = max_idx THEN min_idx
    ELSE LET index == (min_idx + max_idx) \div 2
             key_at_index == get_cell_key(p, index)
         IN  IF key < key_at_index THEN LeafSearch_PastEqual(p, key, min_idx, index)
             ELSE LeafSearch_PastEqual(p, key, index + 1, max_idx)

RECURSIVE LeafSearch(_, _, _, _)
LeafSearch(p, key, min_idx, max_idx) ==
    IF min_idx = max_idx THEN min_idx
    ELSE LET index == (min_idx + max_idx) \div 2
             key_at_index == get_cell_key(p, index)
         IN  IF key = key_at_index THEN index
             ELSE IF key < key_at_index THEN LeafSearch(p, key, min_idx, index)
             ELSE LeafSearch(p, key, index + 1, max_idx)

\* the loop on an internal node as it would be with key_at_right > key for
\* the test: a key equal to a separator goes to the right of it.  C32 is
\* checked against it.
RECURSIVE InternalSearch_Strict(_, _, _, _)
InternalSearch_Strict(p, key, min_idx, max_idx) ==
    IF min_idx = max_idx THEN min_idx
    ELSE LET index == (min_idx + max_idx) \div 2
             key_at_right == get_cell_key(p, index)
         IN  IF key_at_right > key THEN InternalSearch_Strict(p, key, min_idx, index)
             ELSE InternalSearch_Strict(p, key, index + 1, max_idx)

RECURSIVE InternalSearch(_, _, _, _)
InternalSearch(p, key, min_idx, max_idx) ==
    IF min_idx = max_idx THEN min_idx
    ELSE LET index == (min_idx + max_idx) \div 2
             key_at_right == get_cell_key(p, index)
         IN  IF key_at_right >= key THEN InternalSearch(p, key, min_idx, index)
             ELSE InternalSearch(p, key, index + 1, max_idx)

find_cell_num(p, key) ==
    IF p.kind = Leaf THEN LeafSearch(p, key, 0, p.num_cells)
    ELSE LET min_idx == InternalSearch(p, key, 0, p.num_cells)
         IN  IF min_idx >= p.num_cells THEN p.num_cells ELSE min_idx

\* num_cells() - 1 underflows on an empty node: the read that follows panics
HighKeyPanics(p) == p.num_cells = 0

node_high_key(p) == get_cell_key(p, p.num_cells - 1)

is_root(p) == u8_to_bool(p.is_root)

next_sibling(p) ==
    IF p.kind = Internal THEN LEAF_NEXT_SIBLING_POINTER_DEFAULT ELSE p.next_sibling

\* set_next_sibling as it would be without its write: the sibling is not
\* linked.  C4 is checked against it.
set_next_sibling_Unlinked(p, pointer) == p

set_next_sibling(p, pointer) ==
    IF p.kind = Internal THEN [p EXCEPT !.right_child = pointer]
    ELSE [p EXCEPT !.next_sibling = pointer]

\* reads the key bytes of the slot at index find_cell_num(key), also when that
\* index is num_cells and the slot holds no cell
check_key_exists(p, key) == get_cell_key(p, find_cell_num(p, key)) = key

check_has_space(p) ==
    IF p.kind = Leaf
    THEN LET v == p.free_end - p.free_start
         IN  IF v <= LEAF_KEY_CELL_SIZE \/ v - LEAF_KEY_CELL_SIZE <= LEAF_KEY_CELL_SIZE
             THEN "IsFull" ELSE "Ok"
    ELSE IF p.num_cells + 1 > INTERNAL_MAX_KEYS THEN "IsFull" ELSE "Ok"

Max(a, b) == IF a >= b THEN a ELSE b

Min(a, b) == IF a <= b THEN a ELSE b

\* insert_leaf_cell as it would be if the new slot went after the last one
\* instead of to its place in key order.  C25 is checked against it.
insert_leaf_cell_Appends(p, cell) ==
    LET blob == LEAF_CONTENT_LEN_SIZE + cell.len
        free_space_end == p.free_end - blob
        last == (p.free_start - LEAF_HEADER_SIZE) \div LEAF_KEY_CELL_SIZE
        slot == [overflow |-> bool_to_u8(FALSE), key |-> cell.key,
                 ptr |-> free_space_end, len |-> cell.len, val |-> cell.val]
        n == Max(Len(p.slots), last + 1)
        slots == [i \in 1..n |-> IF i - 1 = last THEN slot ELSE SlotAt(p, i - 1)]
    IN  IF blob > p.free_end THEN [res |-> "panic", page |-> p]
        ELSE IF p.free_start + LEAF_KEY_CELL_SIZE >= free_space_end
        THEN [res |-> "HasOverflow", page |-> p]
        ELSE [res |-> "Ok",
              page |-> [p EXCEPT !.slots = slots,
                                 !.free_start = p.free_start + LEAF_KEY_CELL_SIZE,
                                 !.free_end = free_space_end,
                                 !.val_low = Min(p.val_low, free_space_end),
                                 !.num_cells = p.num_cells + 1]]

\* insert_leaf_cell as it would be without the test for HasOverflow.  C28
\* is checked against it.
insert_leaf_cell_Unchecked(p, cell) ==
    Bind(find_cell_num(p, cell.key), LAMBDA idx :
        LET blob == LEAF_CONTENT_LEN_SIZE + cell.len
            free_space_end == p.free_end - blob
            last == (p.free_start - LEAF_HEADER_SIZE) \div LEAF_KEY_CELL_SIZE
            slot == [overflow |-> bool_to_u8(FALSE), key |-> cell.key,
                     ptr |-> free_space_end, len |-> cell.len, val |-> cell.val]
            n == Max(Len(p.slots), Max(last, idx) + 1)
            slots == [i \in 1..n |->
                        IF i - 1 = idx THEN slot
                        ELSE IF i - 1 > idx /\ i - 1 <= last THEN SlotAt(p, i - 2)
                        ELSE SlotAt(p, i - 1)]
        IN  IF blob > p.free_end THEN [res |-> "panic", page |-> p]
            ELSE [res |-> "Ok",
                  page |-> [p EXCEPT !.slots = slots,
                                     !.free_start = p.free_start + LEAF_KEY_CELL_SIZE,
                                     !.free_end = free_space_end,
                                     !.val_low = Min(p.val_low, free_space_end),
                                     !.num_cells = p.num_cells + 1]])

\* insert_leaf_cell; cell is [key, len, val].  free_space_end -= len + 8 is a
\* u64 subtraction: when it underflows the call panics (at the subtraction in a
\* checked build, at the out-of-range write of the blob otherwise).
insert_leaf_cell(p, cell) ==
    Bind(find_cell_num(p, cell.key), LAMBDA idx :
        LET free_space_start == p.free_start
            blob == LEAF_CONTENT_LEN_SIZE + cell.len
            free_space_end == p.free_end - blob
            \* the slots in [key_pos, free_space_start), key_pos the position
            \* of slot idx, move one slot to the right
            last == (free_space_start - LEAF_HEADER_SIZE) \div LEAF_KEY_CELL_SIZE
            slot == [overflow |-> bool_to_u8(FALSE), key |-> cell.key,
                     ptr |-> free_space_end, len |-> cell.len, val |-> cell.val]
            n == Max(Len(p.slots), Max(last, idx) + 1)
            slots == [i \in 1..n |->
                        IF i - 1 = idx THEN slot
                        ELSE IF i - 1 > idx /\ i - 1 <= last THEN SlotAt(p, i - 2)
                        ELSE SlotAt(p, i - 1)]
        IN  IF blob > p.free_end THEN [res |-> "panic", page |-> p]
            ELSE IF free_space_start + LEAF_KEY_CELL_SIZE >= free_space_end
            THEN [res |-> "HasOverflow", page |-> p]
            ELSE [res |-> "Ok",
                  page |-> [p EXCEPT !.slots = slots,
                                     !.free_start = free_space_start + LEAF_KEY_CELL_SIZE,
                                     !.free_end = free_space_end,
                                     !.val_low = Min(p.val_low, free_space_end),
                                     !.num_cells = p.num_cells + 1]])

\* insert_internal_cell as it would be if a key past the last cell only
\* replaced the right-most child, without a cell for the old one.  C36 is
\* checked against it.
insert_internal_cell_DropsChild(p, cell) ==
    Bind(find_cell_num(p, cell.key), LAMBDA cell_num :
        LET n == Max(Len(p.cells), p.num_cells + 1)
            cells == [i \in 1..n |->
                        IF i - 1 = cell_num THEN cell
                        ELSE IF i - 1 > cell_num /\ i - 1 <= p.num_cells
                        THEN CellAt(p, i - 2)
                        ELSE CellAt(p, i - 1)]
        IN  IF cell_num >= p.num_cells
            THEN [res |-> "Ok", page |-> [p EXCEPT !.right_child = cell.pointer]]
            ELSE [res |-> "Ok",
                  page |-> [p EXCEPT !.cells = cells, !.num_cells = p.num_cells + 1]])

\* insert_internal_cell; cell is [key, pointer]
insert_internal_cell(p, cell) ==
    Bind(find_cell_num(p, cell.key), LAMBDA cell_num :
        LET at_end == cell_num >= p.num_cells
            right_child == p.right_child
            p1 == IF at_end THEN [p EXCEPT !.right_child = cell.pointer] ELSE p
            bytes == IF at_end THEN [key |-> cell.key, pointer |-> right_child] ELSE cell
            n == Max(Len(p.cells), p.num_cells + 1)
            cells == [i \in 1..n |->
                        IF i - 1 = cell_num THEN bytes
                        ELSE IF i - 1 > cell_num /\ i - 1 <= p.num_cells
                        THEN CellAt(p, i - 2)
                        ELSE CellAt(p, i - 1)]
        IN  IF at_end /\ right_child = 0 THEN [res |-> "Ok", page |-> p1]
            ELSE [res |-> "Ok",
                  page |-> [p1 EXCEPT !.cells = cells, !.num_cells = p.num_cells + 1]])

\* insert_cell as it would be with the space check first.  C27 is checked
\* against it.
insert_cell_SpaceFirst(p, cell) ==
    IF check_has_space(p) = "IsFull" THEN [res |-> "IsFull", page |-> p]
    ELSE IF check_key_exists(p, cell.key) THEN [res |-> "DuplicateKey", page |-> p]
    ELSE IF p.kind = Internal THEN insert_internal_cell(p, cell)
    ELSE insert_leaf_cell(p, cell)

\* insert_cell: the duplicate check, then the space check, then the insert
insert_cell(p, cell) ==
    IF check_key_exists(p, cell.key) THEN [res |-> "DuplicateKey", page |-> p]
    ELSE IF check_has_space(p) = "IsFull" THEN [res |-> "IsFull", page |-> p]
    ELSE IF p.kind = Internal THEN insert_internal_cell(p, cell)
    ELSE insert_leaf_cell(p, cell)

\* update, on an internal node (the leaf arm is todo!())
update(p, identifier, cell) ==
    IF ~check_key_exists(p, identifier) THEN [res |-> "KeyDoesNotExist", page |-> p]
    ELSE Bind(find_cell_num(p, identifier), LAMBDA cell_num :
        IF p.kind = Leaf THEN [res |-> "panic", page |-> p]
        ELSE IF cell_num >= p.num_cells
        THEN [res |-> "Ok", page |-> [p EXCEPT !.right_child = cell.pointer]]
        ELSE [res |-> "Ok",
              page |-> [p EXCEPT !.cells[cell_num + 1] =
                                     [key |-> cell.key, pointer |-> cell.pointer]]])

\* the cell the split loop rebuilds from slot i of the page (unbuffered reads)
LeafCellAt(p, i) == [key |-> SlotAt(p, i).key, len |-> SlotAt(p, i).len, val |-> SlotAt(p, i).val]

\* the loop of split_leaf_node, for i from cells - 1 down to 0: orig is the page,
\* self and node are the two buffers
RECURSIVE SplitLeafLoop(_, _, _, _, _, _, _)
SplitLeafLoop(orig, self, node, new_cell, new_cell_num, left_split_count, i) ==
    IF i < 0 THEN [res |-> "Ok", self |-> self, node |-> node]
    ELSE LET cell == IF i = new_cell_num THEN new_cell
                     ELSE IF i > new_cell_num THEN LeafCellAt(orig, i - 1)
                     ELSE LeafCellAt(orig, i)
             to_node == i >= left_split_count
         IN  Bind(insert_leaf_cell(IF to_node THEN node ELSE self, cell), LAMBDA r :
                 IF r.res # "Ok" THEN [res |-> r.res, self |-> self, node |-> node]
                 ELSE SplitLeafLoop(orig,
                                    IF to_node THEN self ELSE r.page,
                                    IF to_node THEN r.page ELSE node,
                                    new_cell, new_cell_num, left_split_count, i - 1))

\* split_leaf_node as it would be with the larger half going to the new node.
\* C21 is checked against it.
split_leaf_node_RoundsUp(orig, self, node, new_cell) ==
    LET cells == self.num_cells + 1
        right_split_count == (cells + 1) \div 2
        left_split_count == cells - right_split_count
        cleared == [self EXCEPT !.free_start = LEAF_HEADER_SIZE,
                                !.free_end = PAGE_SIZE,
                                !.num_cells = 0]
    IN  Bind(find_cell_num(self, new_cell.key), LAMBDA new_cell_num :
        Bind(SplitLeafLoop(orig, cleared, node, new_cell, new_cell_num,
                           left_split_count, cells - 1), LAMBDA r :
            IF r.res # "Ok" THEN r
            ELSE [res |-> "Ok",
                  self |-> [r.self EXCEPT !.num_cells = left_split_count],
                  node |-> [r.node EXCEPT !.num_cells = right_split_count]]))

split_leaf_node(orig, self, node, new_cell) ==
    LET cells == self.num_cells + 1
        right_split_count == cells \div 2
        left_split_count == cells - right_split_count
        cleared == [self EXCEPT !.free_start = LEAF_HEADER_SIZE,
                                !.free_end = PAGE_SIZE,
                                !.num_cells = 0]
    IN  Bind(find_cell_num(self, new_cell.key), LAMBDA new_cell_num :
        Bind(SplitLeafLoop(orig, cleared, node, new_cell, new_cell_num,
                           left_split_count, cells - 1), LAMBDA r :
            IF r.res # "Ok" THEN r
            ELSE [res |-> "Ok",
                  self |-> [r.self EXCEPT !.num_cells = left_split_count],
                  node |-> [r.node EXCEPT !.num_cells = right_split_count]]))

\* split_internal_node is todo!()
split_internal_node(orig, self, node, cell) == [res |-> "panic", self |-> self, node |-> node]

\* Node::split as it would be without the buffers: an error leaves the
\* writes made so far in the pages.  C22 is checked against it.
split_Unbuffered(selfpage, nodepage, cell) ==
    Bind(split_leaf_node(selfpage, selfpage, nodepage, cell), LAMBDA r :
        LET sibling == next_sibling(r.self)
        IN  IF r.res # "Ok" THEN r
            ELSE [res |-> "Ok",
                  self |-> r.self,
                  node |-> IF sibling # LEAF_NEXT_SIBLING_POINTER_DEFAULT
                           THEN set_next_sibling(r.node, sibling) ELSE r.node])

\* Node::split as it would be if the new node were not given the next
\* sibling of the split node.  C23 is checked against it.
split_SiblingDropped(selfpage, nodepage, cell) ==
    Bind(IF selfpage.kind = Internal
         THEN split_internal_node(selfpage, selfpage, nodepage, cell)
         ELSE split_leaf_node(selfpage, selfpage, nodepage, cell), LAMBDA r :
        IF r.res # "Ok" THEN [res |-> r.res, self |-> selfpage, node |-> nodepage]
        ELSE [res |-> "Ok", self |-> r.self, node |-> r.node])

\* Node::split: both nodes write into a buffer; an error drops the buffers, a
\* success copies them over the pages and hands self's next sibling to node
split(selfpage, nodepage, cell) ==
    Bind(IF selfpage.kind = Internal
         THEN split_internal_node(selfpage, selfpage, nodepage, cell)
         ELSE split_leaf_node(selfpage, selfpage, nodepage, cell), LAMBDA r :
        LET sibling == next_sibling(r.self)
        IN  IF r.res # "Ok" THEN [res |-> r.res, self |-> selfpage, node |-> nodepage]
            ELSE [res |-> "Ok",
                  self |-> r.self,
                  node |-> IF sibling # LEAF_NEXT_SIBLING_POINTER_DEFAULT
                           THEN set_next_sibling(r.node, sibling) ELSE r.node])

\* Node::load succeeds when the kind byte decodes
LoadOk(p) == p.kind \in {Leaf, Internal}

(***************************************************************************)
(* pager.rs and table.rs.  t is the table with its pager:                  *)
(* [num_pages, root_page, cache, out, root]; out is the file, page i at    *)
(* out[i + 1]; cache is a function from the cached page numbers.           *)
(***************************************************************************)
file_len(t) == Len(t.out) * PAGE_SIZE

\* cache_page as it would be if it wrote the page to the file as well.  C14
\* is checked against it.
cache_page_WriteThrough(t, index, page) ==
    [t EXCEPT !.cache = [i \in DOMAIN t.cache \cup {index} |->
                            IF i = index THEN page ELSE t.cache[i]],
              !.out = [i \in 1..(IF index + 1 > Len(t.out) THEN index + 1 ELSE Len(t.out)) |->
                          IF i = index + 1 THEN page
                          ELSE IF i <= Len(t.out) THEN t.out[i] ELSE ZeroPage]]

cache_page(t, index, page) ==
    [t EXCEPT !.cache = [i \in DOMAIN t.cache \cup {index} |->
                            IF i = index THEN page ELSE t.cache[i]]]

\* new_page as it would be without self.num_pages += 1.  C16 is checked
\* against it.
new_page_NoAdvance(t, kind, root_flag) ==
    [num |-> t.num_pages, t |-> cache_page(t, t.num_pages, BuildPage(kind, root_flag))]

new_page(t, kind, root_flag) ==
    LET num == t.num_pages
    IN  [num |-> num,
         t |-> cache_page([t EXCEPT !.num_pages = num + 1], num, BuildPage(kind, root_flag))]

\* get_page: None when the offset lies beyond the file; the cached page; or the
\* page read from the file (read_exact fails, and panics, at the end of the file)
get_page(t, num) ==
    LET offset == num * PAGE_SIZE
    IN  IF offset > file_len(t) THEN [res |-> "None", t |-> t]
        ELSE IF num \in DOMAIN t.cache THEN [res |-> "Some", t |-> t]
        ELSE IF offset + PAGE_SIZE > file_len(t) THEN [res |-> "panic", t |-> t]
        ELSE [res |-> "Some", t |-> cache_page(t, num, t.out[num + 1])]

\* new_root as it would be if the new root took the new page and the old
\* root stayed where it is.  C7 is checked against it.
new_root_Moved(t) ==
    LET root_handle == t.cache[t.root_page]
        num == t.num_pages
        left_node == BuildPageFrom(root_handle, root_handle.kind, FALSE)
        t1 == [t EXCEPT !.num_pages = num + 1, !.root_page = num,
                        !.cache[t.root_page] = left_node]
    IN  [num |-> t.root_page, t |-> cache_page(t1, num, BuildPage(Internal, TRUE))]

\* new_root as it would be if the copy kept the root flag of the page it
\* copies.  C17 is checked against it.
new_root_KeepsFlag(t) ==
    LET root_handle == t.cache[t.root_page]
        num == t.num_pages
        t1 == [t EXCEPT !.num_pages = num + 1,
                        !.cache[t.root_page] = BuildPage(Internal, TRUE)]
    IN  [num |-> num, t |-> cache_page(t1, num, root_handle)]

\* new_root, once get_page(root_page) has returned the root
new_root(t) ==
    LET root_handle == t.cache[t.root_page]
        kind == root_handle.kind
        fresh == BuildPage(Internal, TRUE)
        num == t.num_pages
        left_node == BuildPageFrom(root_handle, kind, FALSE)
        t1 == [t EXCEPT !.num_pages = num + 1, !.cache[t.root_page] = fresh]
    IN  [num |-> num, t |-> cache_page(t1, num, left_node)]

\* flush_cache as it would be if it wrote only the pages the file does not
\* have yet.  C5 is checked against it.
flush_cache_NewPagesOnly(t) ==
    LET top == IF DOMAIN t.cache = {} THEN 0
               ELSE 1 + CHOOSE m \in DOMAIN t.cache : \A i \in DOMAIN t.cache : i <= m
        n == Max(Len(t.out), top)
    IN  [t EXCEPT !.out = [i \in 1..n |->
                              IF i <= Len(t.out) THEN t.out[i]
                              ELSE IF i - 1 \in DOMAIN t.cache THEN t.cache[i - 1]
                              ELSE ZeroPage]]

\* flush_cache as it would be if it wrote nothing.  C18 is checked against it.
flush_cache_Nothing(t) == t

flush_cache(t) ==
    LET top == IF DOMAIN t.cache = {} THEN 0
               ELSE 1 + CHOOSE m \in DOMAIN t.cache : \A i \in DOMAIN t.cache : i <= m
        n == Max(Len(t.out), top)
    IN  [t EXCEPT !.out = [i \in 1..n |->
                              IF i - 1 \in DOMAIN t.cache THEN t.cache[i - 1]
                              ELSE IF i <= Len(t.out) THEN t.out[i]
                              ELSE ZeroPage]]

\* Pager::new on the file out, then Table::new
TableNew(out) ==
    LET num_pages == (Len(out) * PAGE_SIZE) \div PAGE_SIZE
        obj == [num_pages |-> num_pages, root_page |-> 0, cache |-> << >>,
                out |-> out, root |-> 0]
    IN  IF num_pages = 0
        THEN Bind(new_page(obj, Leaf, TRUE), LAMBDA r :
                 [r.t EXCEPT !.root_page = r.num, !.root = r.num])
        ELSE obj

create_page(t, kind) == new_page(t, kind, FALSE)

\* Table::create_new_root: get_page(root_page).unwrap(), the kind byte and the
\* magic of the root unwrapped, then the pages of new_root
create_new_root(t) ==
    Bind(get_page(t, t.root_page), LAMBDA g :
        IF g.res # "Some" THEN [res |-> "panic", num |-> 0, t |-> g.t]
        ELSE IF ~LoadOk(g.t.cache[t.root_page]) \/ g.t.cache[t.root_page].magic # PAGE_MAGIC
        THEN [res |-> "panic", num |-> 0, t |-> g.t]
        ELSE Bind(new_root(g.t), LAMBDA nr : [res |-> "Ok", num |-> nr.num, t |-> nr.t]))

(***************************************************************************)
(* cursor.rs.  A cursor is [node, cell_num, state, page_breadcrumb]; node  *)
(* is the number of the page its Node views (the Node shares the cached    *)
(* page).  Every operator returns the table it leaves behind and res:      *)
(* "Ok", the error string handed to the caller, or "panic".                *)
(***************************************************************************)
NoCursor == [node |-> 0, cell_num |-> 0, state |-> "AtEnd", page_breadcrumb |-> << >>]

\* Cursor::new: root_page().expect(..), Node::load(..).expect(..)
CursorNew(t) ==
    Bind(get_page(t, t.root), LAMBDA g :
        IF g.res # "Some" THEN [res |-> "panic", t |-> g.t, cur |-> NoCursor]
        ELSE IF ~LoadOk(g.t.cache[t.root])
        THEN [res |-> "panic", t |-> g.t, cur |-> NoCursor]
        ELSE [res |-> "Ok", t |-> g.t,
              cur |-> [node |-> t.root, cell_num |-> 0,
                       state |-> IF g.t.cache[t.root].num_cells = 0
                                 THEN "AtEnd" ELSE "AtStart",
                       page_breadcrumb |-> << <<0, t.root>> >>]])

\* read_cell_bytes on an internal node as it would be if the index num_cells
\* read the last cell again instead of the right-most child.  C39 is checked
\* against it.
read_internal_cell_LastCell(p, num) ==
    IF num < p.num_cells THEN CellAt(p, num)
    ELSE [key |-> node_high_key(p), pointer |-> CellAt(p, p.num_cells - 1).pointer]

\* read_cell_bytes on an internal node, decoded as an InternalCell
read_internal_cell(p, num) ==
    IF num < p.num_cells THEN CellAt(p, num)
    ELSE [key |-> node_high_key(p), pointer |-> p.right_child]

\* find_node as it would be if it pushed the page it leaves instead of the
\* page it loads.  C34 is checked against it.
find_node_PushesParent(t, cur, identifier) ==
    LET p == t.cache[cur.node]
    IN  Bind(find_cell_num(p, identifier), LAMBDA cell_num :
            IF cell_num >= p.num_cells /\ HighKeyPanics(p)
            THEN [res |-> "panic", t |-> t, cur |-> cur]
            ELSE Bind(read_internal_cell(p, cell_num), LAMBDA cell :
                 Bind(get_page(t, cell.pointer), LAMBDA g :
                     IF g.res # "Some" THEN [res |-> "panic", t |-> g.t, cur |-> cur]
                     ELSE IF ~LoadOk(g.t.cache[cell.pointer])
                     THEN [res |-> "panic", t |-> g.t, cur |-> cur]
                     ELSE [res |-> "Ok", t |-> g.t,
                           cur |-> [cur EXCEPT
                                       !.node = cell.pointer,
                                       !.page_breadcrumb =
                                           Append(@, <<cell_num, cur.node>>)]])))

\* find_node: one step down, from the internal node the cursor is on
find_node(t, cur, identifier) ==
    LET p == t.cache[cur.node]
    IN  Bind(find_cell_num(p, identifier), LAMBDA cell_num :
            IF cell_num >= p.num_cells /\ HighKeyPanics(p)
            THEN [res |-> "panic", t |-> t, cur |-> cur]
            ELSE Bind(read_internal_cell(p, cell_num), LAMBDA cell :
                 Bind(get_page(t, cell.pointer), LAMBDA g :
                     IF g.res # "Some" THEN [res |-> "panic", t |-> g.t, cur |-> cur]
                     ELSE IF ~LoadOk(g.t.cache[cell.pointer])
                     THEN [res |-> "panic", t |-> g.t, cur |-> cur]
                     ELSE [res |-> "Ok", t |-> g.t,
                           cur |-> [cur EXCEPT
                                       !.node = cell.pointer,
                                       !.page_breadcrumb =
                                           Append(@, <<cell_num, cell.pointer>>)]])))

WithPage(t, num, page) == [t EXCEPT !.cache[num] = page]

\* the arm for the root as it would be if the two cells went into the new
\* root with their pointers exchanged.  C19 is checked against it.
SplitRoot_Swapped(t, cur, old_max, sibling_page) ==
    Bind(new_root(t), LAMBDA nr :
    Bind(insert_cell(nr.t.cache[nr.t.root], [key |-> 1, pointer |-> sibling_page]),
         LAMBDA r1 :
    Bind(insert_cell(r1.page, [key |-> old_max, pointer |-> nr.num]), LAMBDA r2 :
        [res |-> "Ok", t |-> WithPage(nr.t, nr.t.root, r2.page)])))

\* the arm of Cursor::split for a node that is the root
SplitRoot(t, cur, old_max, sibling_page) ==
    Bind(get_page(t, t.root_page), LAMBDA g :
        IF g.res # "Some" \/ ~LoadOk(g.t.cache[t.root_page])
        THEN [res |-> "panic", t |-> g.t]
        ELSE Bind(new_root(g.t), LAMBDA nr :
             Bind(get_page(nr.t, nr.t.root), LAMBDA g2 :
                 IF g2.res # "Some" THEN [res |-> "panic", t |-> g2.t]
                 ELSE Bind(insert_cell(g2.t.cache[nr.t.root],
                                       [key |-> 1, pointer |-> nr.num]), LAMBDA r1 :
                     IF r1.res # "Ok" THEN [res |-> "panic", t |-> g2.t]
                     ELSE Bind(insert_cell(r1.page, [key |-> old_max,
                                                     pointer |-> sibling_page]), LAMBDA r2 :
                         IF r2.res # "Ok"
                         THEN [res |-> "panic", t |-> WithPage(g2.t, nr.t.root, r1.page)]
                         ELSE [res |-> "Ok",
                               t |-> WithPage(g2.t, nr.t.root, r2.page)])))))

\* Cursor::split.  content is [len, val] for a leaf and [pointer] for an internal
\* node; fuel bounds the cascade to the height of the breadcrumb.
RECURSIVE CursorSplit(_, _, _, _, _)
CursorSplit(t, cur, identifier, content, fuel) ==
    LET kind == t.cache[cur.node].kind
        cell == IF kind = Leaf
                THEN [key |-> identifier, len |-> content.len, val |-> content.val]
                ELSE [key |-> identifier, pointer |-> content.pointer]
        \* the arm for a node that is not the root
        n == Len(cur.page_breadcrumb)
        cell_num == cur.page_breadcrumb[n][1]
        cur_page == cur.page_breadcrumb[n][2]
        crumb == SubSeq(cur.page_breadcrumb, 1, n - 1)
        parent_page == crumb[n - 1][2]
    IN  Bind(create_page(t, kind), LAMBDA np :     \* (new_page, page)
        LET sibling_page == np.num
            t1 == np.t
            self == t1.cache[cur.node]
        IN  IF HighKeyPanics(self) THEN [res |-> "panic", t |-> t1]
            ELSE
        Bind(node_high_key(self), LAMBDA old_max :
        Bind(split(self, t1.cache[sibling_page], cell), LAMBDA sp :
            IF sp.res = "panic" THEN [res |-> "panic", t |-> t1]
            ELSE IF sp.res # "Ok"
            THEN [res |-> IF kind = Leaf
                          THEN "failed to split leaf node; node has overflow"
                          ELSE "failed to split internal node; node has overflow",
                  t |-> t1]
            ELSE
        Bind(set_next_sibling(sp.self, sibling_page), LAMBDA linked :
        Bind(WithPage(WithPage(t1, cur.node, linked), sibling_page, sp.node), LAMBDA t2 :
            IF is_root(linked) = "Err" THEN [res |-> "panic", t |-> t2]
            ELSE IF is_root(linked) = "true" THEN SplitRoot(t2, cur, old_max, sibling_page)
            ELSE IF n < 2 THEN [res |-> "panic", t |-> t2]
            ELSE IF HighKeyPanics(linked) \/ HighKeyPanics(sp.node)
            THEN [res |-> "panic", t |-> t2]
            ELSE
        Bind(get_page(t2, parent_page), LAMBDA g :
            IF g.res # "Some" THEN [res |-> "panic", t |-> g.t]
            ELSE IF ~LoadOk(g.t.cache[parent_page]) THEN [res |-> "panic", t |-> g.t]
            ELSE IF /\ cell_num >= g.t.cache[parent_page].num_cells
                    /\ HighKeyPanics(g.t.cache[parent_page])
            THEN [res |-> "panic", t |-> g.t]
            ELSE
        Bind(g.t.cache[parent_page], LAMBDA parent :
        Bind(IF cur_page # parent.right_child
             THEN update(parent, read_internal_cell(parent, cell_num).key,
                         [key |-> node_high_key(linked), pointer |-> cur_page])
             ELSE [res |-> "Ok", page |-> parent], LAMBDA up :
            IF up.res = "KeyDoesNotExist"
            THEN [res |-> "failed to update parent node pointer; key does not exist",
                  t |-> g.t]
            ELSE IF up.res # "Ok" THEN [res |-> "panic", t |-> g.t]
            ELSE
        Bind(node_high_key(sp.node), LAMBDA new_page_max :
        Bind(WithPage(g.t, parent_page, up.page), LAMBDA t3 :
        Bind(insert_cell(up.page, [key |-> new_page_max, pointer |-> sibling_page]),
             LAMBDA ins :
            IF ins.res = "Ok"
            THEN [res |-> "Ok", t |-> WithPage(t3, parent_page, ins.page)]
            ELSE IF ins.res = "IsFull"
            THEN IF fuel = 0 THEN [res |-> "diverge", t |-> t3]
                 ELSE CursorSplit(t3, [cur EXCEPT !.node = parent_page,
                                                  !.page_breadcrumb = crumb],
                                  new_page_max, [pointer |-> sibling_page], fuel - 1)
            ELSE IF ins.res = "DuplicateKey"
            THEN [res |-> "failed to split parent node: duplicate key", t |-> t3]
            ELSE [res |-> "panic", t |-> t3])))))))))))

\* Cursor::insert: down to a leaf, insert_cell there, split when it is full
RECURSIVE CursorInsert(_, _, _, _, _)
CursorInsert(t, cur, identifier, content, fuel) ==
    LET p == t.cache[cur.node]
    IN  IF p.kind = Leaf
        THEN Bind(insert_cell(p, [key |-> identifier, len |-> content.len,
                                  val |-> content.val]), LAMBDA r :
                 CASE r.res = "Ok" -> [res |-> "Ok", t |-> WithPage(t, cur.node, r.page)]
                   [] r.res = "IsFull" ->
                        CursorSplit(t, cur, identifier, content, Len(cur.page_breadcrumb))
                   [] r.res = "DuplicateKey" -> [res |-> "duplicate key", t |-> t]
                   [] r.res = "HasOverflow" -> [res |-> "node has overflow", t |-> t]
                   [] OTHER -> [res |-> "panic", t |-> t])
        ELSE Bind(find_node(t, cur, identifier), LAMBDA f :
                 IF f.res # "Ok" THEN [res |-> "panic", t |-> f.t]
                 ELSE IF fuel = 0 THEN [res |-> "diverge", t |-> f.t]
                 ELSE CursorInsert(f.t, f.cur, identifier, content, fuel - 1))

\* the first loop of Cursor::select: find_node(0) until the node is a leaf
RECURSIVE SelectDescend(_, _, _)
SelectDescend(t, cur, fuel) ==
    IF t.cache[cur.node].kind = Leaf THEN [res |-> "Ok", t |-> t, cur |-> cur]
    ELSE Bind(find_node(t, cur, 0), LAMBDA f :
             IF f.res # "Ok" THEN [res |-> "panic", t |-> f.t, cur |-> cur]
             ELSE IF fuel = 0 THEN [res |-> "diverge", t |-> f.t, cur |-> f.cur]
             ELSE SelectDescend(f.t, f.cur, fuel - 1))

\* Cursor::advance as it would be if it did not follow the next sibling: the
\* scan ends with the first leaf.  C33 is checked against it.
advance_StopsAtLeafEnd(t, cur) ==
    LET cell_num == cur.cell_num + 1
        p == t.cache[cur.node]
    IN  IF p.num_cells > cell_num
        THEN [res |-> "Ok", t |-> t, cur |-> [cur EXCEPT !.cell_num = cell_num]]
        ELSE [res |-> "Ok", t |-> t,
              cur |-> [cur EXCEPT !.cell_num = cell_num, !.state = "AtEnd"]]

\* Cursor::advance
advance(t, cur) ==
    LET cell_num == cur.cell_num + 1
        p == t.cache[cur.node]
        sibling == next_sibling(p)
    IN  IF p.num_cells > cell_num
        THEN [res |-> "Ok", t |-> t, cur |-> [cur EXCEPT !.cell_num = cell_num]]
        ELSE IF sibling = LEAF_NEXT_SIBLING_POINTER_DEFAULT
        THEN [res |-> "Ok", t |-> t,
              cur |-> [cur EXCEPT !.cell_num = cell_num, !.state = "AtEnd"]]
        ELSE Bind(get_page(t, sibling), LAMBDA g :
                 IF g.res # "Some" THEN [res |-> "panic", t |-> g.t, cur |-> cur]
                 ELSE IF ~LoadOk(g.t.cache[sibling])
                 THEN [res |-> "panic", t |-> g.t, cur |-> cur]
                 ELSE [res |-> "Ok", t |-> g.t,
                       cur |-> [cur EXCEPT !.node = sibling, !.cell_num = 0]])

\* the second loop of Cursor::select.  A row is the slot that was read: select
\* hands out its value, the key is kept to state the order of the rows.
\* read_cell_bytes of a slot that holds no cell follows whatever pointer the
\* slot's bytes hold: "garbage" (a zero slot points at the page's magic, whose
\* value as a length is past the page: a panic).
RECURSIVE SelectLoop(_, _, _, _)
SelectLoop(t, cur, data, fuel) ==
    LET p == t.cache[cur.node]
        slot == SlotAt(p, cur.cell_num)
    IN  IF cur.state = "AtEnd" THEN [res |-> "Ok", t |-> t, cur |-> cur, rows |-> data]
        ELSE IF cur.cell_num >= p.num_cells
        THEN [res |-> IF slot.ptr = 0 THEN "panic" ELSE "garbage", t |-> t,
              cur |-> cur, rows |-> data]
        ELSE Bind(advance(t, [cur EXCEPT !.state = "InProgress"]), LAMBDA a :
                 IF a.res # "Ok"
                 THEN [res |-> "panic", t |-> a.t, cur |-> a.cur, rows |-> data]
                 ELSE IF fuel = 0
                 THEN [res |-> "diverge", t |-> a.t, cur |-> a.cur, rows |-> data]
                 ELSE SelectLoop(a.t, a.cur,
                                 Append(data, [key |-> slot.key, val |-> slot.val]),
                                 fuel - 1))

\* the most cells the pages of t can hold altogether: a scan that reads more
\* rows than that is on a cycle of next-sibling pointers
ScanFuel(t) == t.num_pages * (PAGE_SIZE \div LEAF_KEY_CELL_SIZE)

CursorSelect(t, cur) ==
    Bind(SelectDescend(t, cur, t.num_pages), LAMBDA d :
        IF d.res # "Ok" THEN [res |-> d.res, t |-> d.t, cur |-> d.cur, rows |-> << >>]
        ELSE SelectLoop(d.t, d.cur, << >>, ScanFuel(t)))

(***************************************************************************)
(* statement.rs and repl/mod.rs: the loop of start_repl.  Each turn        *)
(* flushes, prompts, and runs one command through a fresh cursor.          *)
(***************************************************************************)
\* the statements offered at the prompt
Keys == 0..MaxKey

Contents == {[len |-> 1320, val |-> "a"], [len |-> 2700, val |-> "b"]}

\* Statement::Insert(id, content).execute on Cursor::new(&mut table)
ExecInsert(t, identifier, content) ==
    Bind(CursorNew(t), LAMBDA c :
        IF c.res # "Ok" THEN [res |-> "panic", t |-> c.t]
        ELSE CursorInsert(c.t, c.cur, identifier, content, t.num_pages))

\* Statement::Select.execute on Cursor::new(&mut table)
ExecSelect(t) ==
    Bind(CursorNew(t), LAMBDA c :
        IF c.res # "Ok" THEN [res |-> "panic", t |-> c.t, cur |-> c.cur, rows |-> << >>]
        ELSE CursorSelect(c.t, c.cur))

VARIABLES
    num_pages,   \* Pager.num_pages
    root_page,   \* Pager.root_page
    cache,       \* Pager.cache
    out,         \* the file behind Pager.out
    root,        \* Table.root
    pc,          \* where the process is: "flush", "prompt", "exited", "panicked"
    last,        \* what the command of this turn was and what it printed
    history      \* what the inserts given to the file so far were like

vars == <<num_pages, root_page, cache, out, root, pc, last, history>>

\* the table, with its pager, as one value
Tbl == [num_pages |-> num_pages, root_page |-> root_page, cache |-> cache,
        out |-> out, root |-> root]

Becomes(t) ==
    /\ num_pages' = t.num_pages
    /\ root_page' = t.root_page
    /\ cache' = t.cache
    /\ out' = t.out
    /\ root' = t.root

NoOutput == [op |-> "none", key |-> 0, content |-> [len |-> 0, val |-> "none"],
             res |-> "Ok", rows |-> << >>]

\* history.distinct: no two inserts so far were given the same key, and then
\* history.tried is the set of the rows given and history.all_ok says that
\* every insert returned Ok
NoHistory == [distinct |-> TRUE, tried |-> {}, all_ok |-> TRUE]

Record(h, identifier, content, res) ==
    IF h.distinct /\ \A r \in h.tried : r.key # identifier
    THEN [distinct |-> TRUE,
          tried |-> h.tried \cup {[key |-> identifier, val |-> content.val]},
          all_ok |-> h.all_ok /\ res = "Ok"]
    ELSE [distinct |-> FALSE, tried |-> {}, all_ok |-> FALSE]

\* After as it would be if the loop went from a statement straight to the
\* next prompt.  C12 is checked against it.
After_SkipFlush(res) ==
    CASE res \in {"panic", "garbage"} -> "panicked"
      [] res = "diverge" -> "hung"
      [] OTHER -> "prompt"

\* after a panic the process is gone, on a cycle of pointers it never comes
\* back; everything else goes back to the flush at the top of the loop
After(res) ==
    CASE res \in {"panic", "garbage"} -> "panicked"
      [] res = "diverge" -> "hung"
      [] OTHER -> "flush"

\* start_repl on a file that was just created: Table::new, then the loop
Init ==
    /\ num_pages = TableNew(<< >>).num_pages
    /\ root_page = TableNew(<< >>).root_page
    /\ cache = TableNew(<< >>).cache
    /\ out = TableNew(<< >>).out
    /\ root = TableNew(<< >>).root
    /\ pc = "flush"
    /\ last = NoOutput
    /\ history = NoHistory

\* table.flush_contents() at the top of the loop, then the prompt
Flush ==
    /\ pc = "flush"
    /\ Becomes(flush_cache(Tbl))
    /\ pc' = "prompt"
    /\ last' = NoOutput
    /\ UNCHANGED history

\* "insert <id> <content>" at the prompt
Insert(identifier, content) ==
    /\ pc = "prompt"
    /\ \E r \in {ExecInsert(Tbl, identifier, content)} :
           /\ r.t.num_pages <= MaxPages
           /\ Becomes(r.t)
           /\ pc' = After(r.res)
           /\ last' = [op |-> "insert", key |-> identifier, content |-> content,
                       res |-> r.res, rows |-> << >>]
           /\ history' = Record(history, identifier, content, r.res)

\* "select" at the prompt
Select ==
    /\ pc = "prompt"
    /\ \E r \in {ExecSelect(Tbl)} :
           /\ Becomes(r.t)
           /\ pc' = After(r.res)
           /\ last' = [op |-> "select", key |-> 0, content |-> NoOutput.content,
                       res |-> r.res, rows |-> r.rows]
           /\ UNCHANGED history

\* ".exit" at the prompt: std::process::exit(0)
Exit ==
    /\ pc = "prompt"
    /\ pc' = "exited"
    /\ last' = [NoOutput EXCEPT !.op = "exit"]
    /\ UNCHANGED <<num_pages, root_page, cache, out, root, history>>

\* the program is started again on the same file
Reopen ==
    /\ pc \in {"exited", "panicked"}
    /\ Becomes(TableNew(out))
    /\ pc' = "flush"
    /\ last' = [NoOutput EXCEPT !.op = "open"]
    /\ UNCHANGED history

Next ==
    \/ Flush
    \/ \E identifier \in Keys, content \in Contents : Insert(identifier, content)
    \/ Select
    \/ Exit
    \/ Reopen

Spec == Init /\ [][Next]_vars

(***************************************************************************)
(* What the file holds, as the next select would show it.                  *)
(***************************************************************************)
\* the rows a select at the next prompt returns
Scan(t) == ExecSelect(flush_cache(t))

ScanKeys(t) == {Scan(t).rows[i].key : i \in 1..Len(Scan(t).rows)}

Ascending(rows) == \A i \in 1..(Len(rows) - 1) : rows[i].key < rows[i + 1].key

NoKeyTwice(rows) ==
    \A i, j \in 1..Len(rows) : rows[i].key = rows[j].key => i = j

\* page num of t as the pager would hand it out: cached, or from the file
PageOf(t, num) == IF num \in DOMAIN t.cache THEN t.cache[num] ELSE t.out[num + 1]

\* the root has been split: the tree has more than one level
MultiLevel(t) == PageOf(t, t.root).kind = Internal

\* the process is in the loop of start_repl
Running == pc \in {"flush", "prompt"}

\* The record of a page keeps its slots and not its bytes, which is exact as
\* long as no key is read from bytes that hold a value: the key of the slot
\* after the last one, the furthest that check_key_exists reads, lies below
\* every value the page has held.  The results of the scan that stand for
\* reads the records cannot answer do not occur either.
PageRecordsExact ==
    /\ \A n \in DOMAIN cache :
           (cache[n].kind = Leaf /\ cache[n].magic = PAGE_MAGIC)
               => cache[n].free_start + LEAF_KEY_INDENTIFIER_OFFSET + U64_SIZE
                      <= cache[n].val_low
    /\ last.res \notin {"garbage", "diverge"}
    /\ pc # "hung"

(***************************************************************************)
(* P1, ordered scan.                                                       *)
(***************************************************************************)
\* C1: when the inserts given so far had pairwise distinct keys, a select
\* returns its rows in strictly ascending key order.
C1_ScanAscending ==
    (last.op = "select" /\ last.res = "Ok" /\ history.distinct)
        => Ascending(last.rows)

(***************************************************************************)
(* P2, duplicates.                                                         *)
(***************************************************************************)
\* C2: an insert of a key that the file already holds returns "duplicate
\* key", and afterwards no key is held twice.
C2_DuplicateRejected ==
    [][(pc = "prompt" /\ last'.op = "insert" /\ last'.key \in ScanKeys(Tbl))
           => (last'.res = "duplicate key" /\ NoKeyTwice(Scan(Tbl').rows))]_vars

\* C3: an insert of a key that the file does not hold never returns
\* "duplicate key".
C3_NoFalseDuplicate ==
    [][(pc = "prompt" /\ last'.op = "insert" /\ last'.key \notin ScanKeys(Tbl))
           => last'.res # "duplicate key"]_vars

C5_RestartKeepsRows ==
    [][(pc = "exited" /\ pc' = "flush")
           => /\ Scan(Tbl').res = Scan(Tbl).res
              /\ Scan(Tbl').rows = Scan(Tbl).rows]_vars

\* the file of a tree of more than one level has just been opened again
C5_Witness ==
    /\ pc = "flush" /\ last.op = "open"
    /\ history.distinct /\ history.all_ok /\ MultiLevel(Tbl)
    /\ Scan(Tbl).res = "Ok" /\ Len(Scan(Tbl).rows) >= 4

(***************************************************************************)
(* I7, I1 and I2: the separators, the root, the page headers on disk.      *)
(***************************************************************************)
\* the keys held by the leaves under page num
RECURSIVE KeysUnder(_, _, _)
KeysUnder(t, num, fuel) ==
    LET p == PageOf(t, num)
    IN  IF p.kind = Leaf THEN {SlotAt(p, i).key : i \in 0..(p.num_cells - 1)}
        ELSE IF fuel = 0 THEN {}
        ELSE UNION ({KeysUnder(t, CellAt(p, i).pointer, fuel - 1) :
                        i \in 0..(p.num_cells - 1)}
                    \cup {KeysUnder(t, p.right_child, fuel - 1)})

\* C6: at the prompt, every cell (K, P) of every internal page has K equal
\* to the highest key under P, and every key under the right-most child is
\* greater than the key of the last cell.
C6_Separators ==
    pc = "prompt" =>
        \A n \in 0..(Len(out) - 1) :
            LET p == PageOf(Tbl, n)
            IN  p.kind = Internal =>
                    /\ \A i \in 0..(p.num_cells - 1) :
                           LET under == KeysUnder(Tbl, CellAt(p, i).pointer, num_pages)
                           IN  /\ CellAt(p, i).key \in under
                               /\ \A k \in under : k <= CellAt(p, i).key
                    /\ p.num_cells > 0 =>
                           \A k \in KeysUnder(Tbl, p.right_child, num_pages) :
                               k > CellAt(p, p.num_cells - 1).key

\* C7: the root is page 0 at all times: Table.root and Pager.root_page are
\* 0 and page 0 decodes as a root page.
C7_RootIsPageZero ==
    /\ root = 0
    /\ root_page = 0
    /\ is_root(PageOf(Tbl, 0)) = "true"

\* the root has been split and replaced by an internal page
C7_Witness ==
    /\ MultiLevel(Tbl)
    /\ last.op = "insert" /\ last.res = "Ok"
    /\ PageOf(Tbl, 0).num_cells >= 1

\* C8: every page of the file has the magic 0xFEBA, a kind byte of 0x0A or
\* 0x0B and an is-root byte of 0 or 1, and the is-root byte is 1 on page 0
\* and on no other page.
C8_OnDiskHeader ==
    \A i \in 1..Len(out) :
        /\ out[i].magic = PAGE_MAGIC
        /\ out[i].kind \in {Leaf, Internal}
        /\ out[i].is_root \in {0, 1}
        /\ out[i].is_root = 1 <=> i = 1

(***************************************************************************)
(* P5, a failed insert leaves no trace.                                    *)
(***************************************************************************)
\* an error string of Cursor::insert: neither Ok nor the end of the process
Refused(res) == res \notin {"Ok", "panic", "garbage", "diverge"}

\* C9: when an insert returns an error string, the next flush leaves the
\* file as the flush before the insert left it.
C9_RefusedInsertLeavesFile ==
    [][(pc = "prompt" /\ last'.op = "insert" /\ Refused(last'.res))
           => flush_cache(Tbl').out = flush_cache(Tbl).out]_vars

(***************************************************************************)
(* P6, a full parent.  An internal page is full at INTERNAL_MAX_KEYS       *)
(* cells, so the way there is long: values of which one fills a leaf,      *)
(* inserted under ascending keys, each splitting the right-most leaf.      *)
(***************************************************************************)
\* a value that fills a leaf by itself
BigContent == [len |-> 4000, val |-> "c"]

\* "insert <id> <content>" at the prompt, for the next key and a big value
InsertAscending ==
    /\ pc = "prompt"
    /\ history.distinct
    /\ Cardinality(history.tried) < MaxAscending
    /\ \E identifier \in {Cardinality(history.tried) + 1} :
       \E r \in {ExecInsert(Tbl, identifier, BigContent)} :
           /\ Becomes(r.t)
           /\ pc' = After(r.res)
           /\ last' = [op |-> "insert", key |-> identifier, content |-> BigContent,
                       res |-> r.res, rows |-> << >>]
           /\ history' = Record(history, identifier, BigContent, r.res)

NextCascade ==
    \/ Flush
    \/ InsertAscending

SpecCascade == Init /\ [][NextCascade]_vars

\* the leaf that Cursor::insert comes to for identifier
RECURSIVE LeafFor(_, _, _, _)
LeafFor(t, cur, identifier, fuel) ==
    LET f == find_node(t, cur, identifier)
    IN  IF t.cache[cur.node].kind = Leaf \/ f.res # "Ok" \/ fuel = 0
        THEN t.cache[cur.node]
        ELSE LeafFor(f.t, f.cur, identifier, fuel - 1)

\* the insert of identifier comes to a leaf that is full
MeetsFullLeaf(t, identifier) ==
    LET c == CursorNew(t)
        leaf == LeafFor(c.t, c.cur, identifier, t.num_pages)
    IN  c.res = "Ok" /\ leaf.kind = Leaf /\ check_has_space(leaf) = "IsFull"

\* C10: an insert that comes to a full leaf returns Ok: the leaf is split,
\* and so is its parent when that is full too.
C10_FullNodeIsSplit ==
    [][(pc = "prompt" /\ last'.op = "insert" /\ MeetsFullLeaf(Tbl, last'.key))
           => last'.res = "Ok"]_vars

(***************************************************************************)
(* A split and the parent of the split node.  With values of which one     *)
(* fills a leaf every insert after the first splits a leaf, so that a      *)
(* parent sees splits of its right-most child and of its other children.   *)
(***************************************************************************)
\* a value longer than a page
HugeContent == [len |-> 5000, val |-> "d"]

BigContents == {BigContent, HugeContent}

\* "insert <id> <content>" at the prompt, for a big value
InsertBig(identifier, content) ==
    /\ pc = "prompt"
    /\ \E r \in {ExecInsert(Tbl, identifier, content)} :
           /\ r.t.num_pages <= MaxPagesOneCell
           /\ Becomes(r.t)
           /\ pc' = After(r.res)
           /\ last' = [op |-> "insert", key |-> identifier, content |-> content,
                       res |-> r.res, rows |-> << >>]
           /\ history' = Record(history, identifier, content, r.res)

NextOneCell ==
    \/ Flush
    \/ \E identifier \in 0..MaxKeyOneCell, content \in BigContents :
           InsertBig(identifier, content)
    \/ Select

SpecOneCell == Init /\ [][NextOneCell]_vars

\* the insert came back to the prompt: with Ok or with an error string
Returned(res) == res \notin {"panic", "garbage", "diverge"}

\* some internal page of t points at page n, from a cell or as its
\* right-most child
PointedAt(t, n) ==
    \E m \in DOMAIN t.cache :
        /\ t.cache[m].kind = Internal
        /\ \/ t.cache[m].right_child = n
           \/ \E i \in 0..(t.cache[m].num_cells - 1) : CellAt(t.cache[m], i).pointer = n

\* the pages that the step allocated
Allocated(t, tt) == t.num_pages..(tt.num_pages - 1)

\* C11: when an insert returns, every page it allocated and filled, the new
\* sibling of a split, is pointed at by an internal page: the rewrite of the
\* two leaves and the update of the parent are applied together.
C11_SplitWithParent ==
    [][(pc = "prompt" /\ last'.op = "insert" /\ Returned(last'.res))
           => \A n \in Allocated(Tbl, Tbl') :
                  Tbl'.cache[n].num_cells > 0 => PointedAt(Tbl', n)]_vars

(***************************************************************************)
(* The flush of the loop and the exit.                                     *)
(***************************************************************************)
\* C12: when .exit ends the process, every cached page equals the page of
\* the file at its offset: the loop has flushed after the last statement.
C12_ExitLeavesFileCurrent ==
    pc = "exited" =>
        \A n \in DOMAIN cache : n < Len(out) /\ out[n + 1] = cache[n]

\* the process has exited after inserts that split the root
C12_Witness ==
    /\ pc = "exited"
    /\ MultiLevel(Tbl)
    /\ history.distinct /\ history.all_ok /\ Cardinality(history.tried) >= 4

(***************************************************************************)
(* O4, a value that does not fit.                                          *)
(***************************************************************************)
\* the leaf that the insert of identifier comes to
TargetLeaf(t, identifier) ==
    LeafFor(CursorNew(t).t, CursorNew(t).cur, identifier, t.num_pages)

\* the length prefix and the bytes of content are more than the free space
\* of the leaf that the insert of identifier comes to, a leaf without the key
DoesNotFit(t, identifier, content) ==
    /\ CursorNew(t).res = "Ok"
    /\ TargetLeaf(t, identifier).kind = Leaf
    /\ ~check_key_exists(TargetLeaf(t, identifier), identifier)
    /\ LEAF_CONTENT_LEN_SIZE + content.len >
           TargetLeaf(t, identifier).free_end - TargetLeaf(t, identifier).free_start

\* C13: an insert of a value that does not fit into its leaf returns "node
\* has overflow" and leaves the cached pages as they were.
C13_OverflowIsRefused ==
    [][(pc = "prompt" /\ last'.op = "insert"
            /\ DoesNotFit(Tbl, last'.key, last'.content))
           => (last'.res = "node has overflow" /\ cache' = cache)]_vars

(***************************************************************************)
(* table.rs, as a host other than the shell may use it: create_page,       *)
(* create_new_root, get_page and flush_contents in any order, on a table   *)
(* opened on a new file, and opened again on the file as it is.            *)
(***************************************************************************)
\* a panic ends the host; after anything else it makes its next call
AfterCall(res) == IF res \in {"panic", "garbage", "diverge"} THEN "panicked" ELSE "prompt"

HostCalled(op, num, res) == [NoOutput EXCEPT !.op = op, !.key = num, !.res = res]

\* table.create_page(kind)
CreatePage(kind) ==
    /\ pc = "prompt"
    /\ num_pages < MaxPagesHost
    /\ \E r \in {create_page(Tbl, kind)} :
           /\ Becomes(r.t)
           /\ last' = HostCalled("create_page", r.num, "Ok")
    /\ UNCHANGED <<pc, history>>

\* table.create_new_root()
CreateNewRoot ==
    /\ pc = "prompt"
    /\ num_pages < MaxPagesHost
    /\ \E r \in {create_new_root(Tbl)} :
           /\ Becomes(r.t)
           /\ pc' = AfterCall(r.res)
           /\ last' = HostCalled("create_new_root", r.num, r.res)
    /\ UNCHANGED history

\* table.get_page(num)
GetPage(num) ==
    /\ pc = "prompt"
    /\ \E r \in {get_page(Tbl, num)} :
           /\ Becomes(r.t)
           /\ pc' = AfterCall(r.res)
           /\ last' = HostCalled("get_page", num, r.res)
    /\ UNCHANGED history

\* the rows of the host
HostContent == [len |-> 1320, val |-> "a"]

\* Cursor::new(&mut table).insert(identifier, content)
HostInsert(identifier) ==
    /\ pc = "prompt"
    /\ \E r \in {ExecInsert(Tbl, identifier, HostContent)} :
           /\ r.t.num_pages <= MaxPagesHost
           /\ Becomes(r.t)
           /\ pc' = AfterCall(r.res)
           /\ last' = [op |-> "insert", key |-> identifier, content |-> HostContent,
                       res |-> r.res, rows |-> << >>]
    /\ UNCHANGED history

\* table.flush_contents()
FlushContents ==
    /\ pc = "prompt"
    /\ Becomes(flush_cache(Tbl))
    /\ last' = HostCalled("flush_contents", 0, "Ok")
    /\ UNCHANGED <<pc, history>>

\* the host ends, or has panicked, and Table::new opens the file again
OpenAgain ==
    /\ Becomes(TableNew(out))
    /\ pc' = "prompt"
    /\ last' = HostCalled("open", 0, "Ok")
    /\ UNCHANGED history

\* Table::new on a file that was just created
InitHost ==
    /\ num_pages = TableNew(<< >>).num_pages
    /\ root_page = TableNew(<< >>).root_page
    /\ cache = TableNew(<< >>).cache
    /\ out = TableNew(<< >>).out
    /\ root = TableNew(<< >>).root
    /\ pc = "prompt"
    /\ last = HostCalled("open", 0, "Ok")
    /\ history = NoHistory

NextHost ==
    \/ \E kind \in {Leaf, Internal} : CreatePage(kind)
    \/ CreateNewRoot
    \/ \E num \in 0..MaxPagesHost : GetPage(num)
    \/ \E identifier \in 0..MaxKeyHost : HostInsert(identifier)
    \/ FlushContents
    \/ OpenAgain

SpecHost == InitHost /\ [][NextHost]_vars

(***************************************************************************)
(* The pager: what reaches the file, get_page, page numbers, new_root and  *)
(* flush.                                                                  *)
(***************************************************************************)
\* C14: a step that changes the file is the flush at the top of the loop:
\* an insert, with the splits, allocations and page reads it makes, leaves
\* the file as it is.
C14_OnlyFlushWrites ==
    [][out' = out \/ (pc = "flush" /\ pc' = "prompt")]_vars

\* an insert has split the root and the pages it allocated are not in the
\* file yet
C14_Witness ==
    /\ pc = "flush" /\ last.op = "insert" /\ last.res = "Ok"
    /\ MultiLevel(Tbl)
    /\ num_pages > Len(out)

\* C15: get_page(num) returns the cached page whenever the cache holds num,
\* returns None only for a page that is neither cached nor within the file,
\* and does not panic.
C15_GetPage ==
    [][last'.op = "get_page"
           => /\ last'.key \in DOMAIN cache => (last'.res = "Some" /\ cache' = cache)
              /\ last'.res = "None" =>
                     (last'.key \notin DOMAIN cache /\ last'.key * PAGE_SIZE >= file_len(Tbl))
              /\ last'.res # "panic"]_vars

\* C16: create_page and create_new_root hand out num_pages and raise it by
\* one, and the number is above every cached number, so that the new page
\* takes the place of no cached page; num_pages never goes down while the table is open, and at
\* open it is the number of pages of the file, or 1 with page 0 allocated as
\* the root leaf when the file is empty.
C16_SequentialPages ==
    [][/\ (last'.op \in {"create_page", "create_new_root"} /\ last'.res = "Ok")
              => /\ last'.key = num_pages
                 /\ num_pages' = num_pages + 1
                 /\ \A n \in DOMAIN cache : n < last'.key
                 /\ last'.key \in DOMAIN cache'
       /\ last'.op # "open" => num_pages' >= num_pages
       /\ last'.op = "open"
              => IF Len(out) = 0
                 THEN /\ num_pages' = 1
                      /\ DOMAIN cache' = {0}
                      /\ cache'[0].kind = Leaf /\ is_root(cache'[0]) = "true"
                 ELSE num_pages' = Len(out) /\ root' = 0]_vars

\* a page is allocated on a table that was opened on a file of several pages
C16_Witness ==
    /\ last.op = "create_page"
    /\ last.key >= 2
    /\ Len(out) = last.key
    /\ DOMAIN cache = {last.key}

\* C17: create_new_root allocates one page P, leaves in P the root as it was
\* but for the root flag, which is cleared, and leaves page 0 an internal
\* root page without cells and with right-most child 0; it returns P, and
\* no other page and no byte of the file changes.
C17_NewRoot ==
    [][(last'.op = "create_new_root" /\ last'.res = "Ok")
           => /\ last'.key = num_pages
              /\ last'.key \notin DOMAIN cache
              /\ cache'[last'.key] =
                     [PageOf(Tbl, 0) EXCEPT !.is_root = cache'[last'.key].is_root]
              /\ is_root(cache'[last'.key]) = "false"
              /\ cache'[0].kind = Internal
              /\ is_root(cache'[0]) = "true"
              /\ cache'[0].num_cells = 0
              /\ cache'[0].right_child = 0
              /\ cache'[0].magic = PAGE_MAGIC
              /\ DOMAIN cache' = DOMAIN cache \cup {0, last'.key}
              /\ \A n \in DOMAIN cache \ {0} : cache'[n] = cache[n]
              /\ out' = out /\ root' = 0 /\ root_page' = 0]_vars

\* the root that was replaced was a leaf with rows, and other pages were
\* cached besides it
C17_Witness ==
    /\ last.op = "create_new_root" /\ last.res = "Ok"
    /\ cache[last.key].kind = Leaf
    /\ cache[last.key].num_cells >= 2
    /\ Cardinality(DOMAIN cache) >= 3

\* C18: after flush_contents the file holds, at its offset, every cached
\* page as the cache holds it, and the cache is as it was; on a table just
\* opened on an empty file the file is then the one page that the builder
\* gives for a leaf with is_root = true.
C18_FlushWritesCache ==
    [][last'.op = "flush_contents"
           => /\ cache' = cache
              /\ \A n \in DOMAIN cache : n < Len(out') /\ out'[n + 1] = cache[n]
              /\ (last.op = "open" /\ out = << >>)
                     => out' = <<BuildPage(Leaf, TRUE)>>]_vars

\* flushed: the table just opened on an empty file; and a cache of several
\* pages, one of them with rows
C18_Witness ==
    /\ last.op = "flush_contents"
    /\ Cardinality(DOMAIN cache) >= 3
    /\ \E n \in DOMAIN cache : cache[n].kind = Leaf /\ cache[n].num_cells >= 1

(***************************************************************************)
(* The split of the root, and of a leaf under the root.                    *)
(***************************************************************************)
\* the keys of the cells of leaf page p
KeysIn(p) == {SlotAt(p, i).key : i \in 0..(p.num_cells - 1)}

\* the insert of a row of 1320 bytes under a new key comes to the root, a
\* leaf that is full: the root is split
RootIsSplit(t, identifier, content) ==
    /\ PageOf(t, 0).kind = Leaf
    /\ check_has_space(PageOf(t, 0)) = "IsFull"
    /\ ~check_key_exists(PageOf(t, 0), identifier)
    /\ content.len = 1320

\* C19: when an insert splits the root, with H the root's high key before
\* the split, P_old the page of create_new_root and S the new sibling, page 0
\* is afterwards an internal root page with the one cell (H, P_old) and the
\* right-most child S; P_old holds the left half of the keys and S the right
\* half, and P_old is linked to S.
C19_RootSplit ==
    [][(pc = "prompt" /\ last'.op = "insert"
            /\ RootIsSplit(Tbl, last'.key, last'.content))
           => /\ last'.res = "Ok"
              /\ num_pages' = num_pages + 2
              /\ cache'[0].kind = Internal
              /\ is_root(cache'[0]) = "true"
              /\ cache'[0].num_cells = 1
              /\ CellAt(cache'[0], 0) = [key |-> node_high_key(PageOf(Tbl, 0)),
                                         pointer |-> num_pages + 1]
              /\ cache'[0].right_child = num_pages
              /\ cache'[num_pages + 1].kind = Leaf
              /\ cache'[num_pages].kind = Leaf
              /\ is_root(cache'[num_pages + 1]) = "false"
              /\ is_root(cache'[num_pages]) = "false"
              /\ KeysIn(cache'[num_pages + 1]) \cup KeysIn(cache'[num_pages])
                     = KeysIn(PageOf(Tbl, 0)) \cup {last'.key}
              /\ \A a \in KeysIn(cache'[num_pages + 1]) :
                     \A b \in KeysIn(cache'[num_pages]) : a < b
              /\ cache'[num_pages].num_cells = (PageOf(Tbl, 0).num_cells + 1) \div 2
              /\ cache'[num_pages + 1].num_cells =
                     (PageOf(Tbl, 0).num_cells + 1) - cache'[num_pages].num_cells
              /\ next_sibling(cache'[num_pages + 1]) = num_pages
              /\ next_sibling(cache'[num_pages]) = LEAF_NEXT_SIBLING_POINTER_DEFAULT]_vars

\* an insert has just split the root of a file of one page
C19_Witness ==
    /\ pc = "flush" /\ last.op = "insert" /\ last.res = "Ok"
    /\ Len(out) = 1 /\ num_pages = 3
    /\ cache[0].kind = Internal /\ cache[0].num_cells = 1

\* the step is an insert that returned Ok and split a leaf under the root:
\* one page was allocated, and filled
ChildIsSplit ==
    /\ pc = "prompt" /\ last'.op = "insert" /\ last'.res = "Ok"
    /\ PageOf(Tbl, 0).kind = Internal
    /\ num_pages' = num_pages + 1
    /\ PageOf(Tbl', num_pages).num_cells > 0

\* C20: when an insert has split a leaf under the root, the root holds for
\* the split leaf, the one now linked to the new sibling, a cell keyed by
\* that leaf's high key, and for the new sibling a cell keyed by the
\* sibling's high key; the sibling of a leaf that was the right-most child
\* may be the right-most child instead.
C20_SeparatorsAfterSplit ==
    [][ChildIsSplit
           => \A m \in 1..(num_pages - 1) :
                  (/\ PageOf(Tbl', m).kind = Leaf
                   /\ next_sibling(PageOf(Tbl', m)) = num_pages)
                  => /\ \E i \in 0..(PageOf(Tbl', 0).num_cells - 1) :
                            CellAt(PageOf(Tbl', 0), i) =
                                [key |-> node_high_key(PageOf(Tbl', m)), pointer |-> m]
                     /\ \/ \E j \in 0..(PageOf(Tbl', 0).num_cells - 1) :
                              CellAt(PageOf(Tbl', 0), j) =
                                  [key |-> node_high_key(PageOf(Tbl', num_pages)),
                                   pointer |-> num_pages]
                        \/ /\ PageOf(Tbl, 0).right_child = m
                           /\ PageOf(Tbl', 0).right_child = num_pages]_vars

(***************************************************************************)
(* btree.rs, the calls on one Node: insert_cell on a leaf and on an        *)
(* internal node, and split of a leaf that insert_cell found full into a   *)
(* fresh leaf, on the pages of a table opened on a new file.               *)
(***************************************************************************)
\* the values given to a leaf: three, two and one of them fill a leaf
NodeContents ==
    {[len |-> 1320, val |-> "a"], [len |-> 1990, val |-> "b"], [len |-> 2700, val |-> "c"]}

LeafCellOf(identifier, content) ==
    [key |-> identifier, len |-> content.len, val |-> content.val]

NodeCalled(op, node, other, cell, res) ==
    [op |-> op, node |-> node, other |-> other, cell |-> cell, res |-> res]

\* table.create_page(kind), the page of a new node
NodeCreate(kind) ==
    /\ pc = "prompt"
    /\ num_pages < MaxPagesNode
    /\ \E r \in {create_page(Tbl, kind)} :
           /\ Becomes(r.t)
           /\ last' = NodeCalled("create_page", r.num, r.num, ZeroCell, "Ok")
    /\ UNCHANGED <<pc, history>>

\* Node::load(page n).insert_cell(cell): a leaf cell on a leaf, an internal
\* cell on an internal node
NodeInsert(n, cell) ==
    /\ pc = "prompt"
    /\ n \in DOMAIN cache
    /\ cache[n].kind = (IF "pointer" \in DOMAIN cell THEN Internal ELSE Leaf)
    /\ \E r \in {insert_cell(cache[n], cell)} :
           /\ cache' = [cache EXCEPT ![n] = r.page]
           /\ pc' = AfterCall(r.res)
           /\ last' = NodeCalled("insert_cell", n, n, cell, r.res)
    /\ UNCHANGED <<num_pages, root_page, out, root, history>>

\* Node::load(page n).split(&mut Node::load(page m), cell), as Cursor::split
\* calls it: insert_cell has returned IsFull for cell, and page m is new
NodeSplit(n, m, cell) ==
    /\ pc = "prompt"
    /\ n \in DOMAIN cache /\ m \in DOMAIN cache
    /\ cache[n].kind = Leaf
    /\ cache[m] = BuildPage(Leaf, FALSE)
    /\ insert_cell(cache[n], cell).res = "IsFull"
    /\ \E r \in {split(cache[n], cache[m], cell)} :
           /\ cache' = [cache EXCEPT ![n] = r.self, ![m] = r.node]
           /\ pc' = AfterCall(r.res)
           /\ last' = NodeCalled("split", n, m, cell, r.res)
    /\ UNCHANGED <<num_pages, root_page, out, root, history>>

\* Table::new on a file that was just created
InitNode ==
    /\ num_pages = TableNew(<< >>).num_pages
    /\ root_page = TableNew(<< >>).root_page
    /\ cache = TableNew(<< >>).cache
    /\ out = TableNew(<< >>).out
    /\ root = TableNew(<< >>).root
    /\ pc = "prompt"
    /\ last = NodeCalled("open", 0, 0, ZeroCell, "Ok")
    /\ history = NoHistory

\* the cells given to a leaf
LeafCells ==
    {LeafCellOf(identifier, content) : identifier \in 0..MaxKeyNode, content \in NodeContents}

\* the leaf under test is page 0; a split moves cells into a new leaf
NextLeafNode ==
    \/ NodeCreate(Leaf)
    \/ \E cell \in LeafCells : NodeInsert(0, cell)
    \/ \E m \in 1..(MaxPagesNode - 1), cell \in LeafCells : NodeSplit(0, m, cell)

SpecLeafNode == InitNode /\ [][NextLeafNode]_vars

\* the pointers given to an internal node
NodePointers == {1, 2}

\* the cells given to an internal node
InternalCells ==
    {[key |-> identifier, pointer |-> pointer] :
         identifier \in 0..MaxKeyNode, pointer \in NodePointers}

\* the internal node under test is the first page created after the root
NextInternalNode ==
    \/ NodeCreate(Internal)
    \/ \E cell \in InternalCells : NodeInsert(1, cell)

SpecInternalNode == InitNode /\ [][NextInternalNode]_vars

\* the (key, value) pairs of the cells of a leaf
PairsIn(p) == {LeafCellAt(p, i) : i \in 0..(p.num_cells - 1)}

\* Node::split has just returned Ok
SplitDone == last'.op = "split" /\ last'.res = "Ok"

\* C21: a successful split of a leaf that holds n cells, with the incoming
\* cell, leaves floor((n + 1) / 2) cells in the new node and the other cells
\* in the split node; the pairs of the two nodes together are the pairs of
\* the old node and the incoming pair; every key of the split node is
\* smaller than every key of the new node.
C21_LeafSplitHalves ==
    [][SplitDone
           => /\ cache'[last'.other].num_cells = (cache[last'.node].num_cells + 1) \div 2
              /\ cache'[last'.node].num_cells =
                     (cache[last'.node].num_cells + 1) - cache'[last'.other].num_cells
              /\ PairsIn(cache'[last'.node]) \cup PairsIn(cache'[last'.other]) =
                     PairsIn(cache[last'.node]) \cup {last'.cell}
              /\ Cardinality(KeysIn(cache'[last'.node])) = cache'[last'.node].num_cells
              /\ Cardinality(KeysIn(cache'[last'.other])) = cache'[last'.other].num_cells
              /\ \A a \in KeysIn(cache'[last'.node]), b \in KeysIn(cache'[last'.other]) :
                     a < b]_vars

\* a leaf of two cells was split: two cells stay, one is in the new node
C21_Witness ==
    /\ last.op = "split" /\ last.res = "Ok"
    /\ cache[last.node].num_cells = 2
    /\ cache[last.other].num_cells = 1
    /\ last.cell.key \in KeysIn(cache[last.node])

\* Node::split has just returned an error
SplitFailed == last'.op = "split" /\ last'.res \notin {"Ok", "panic"}

\* C22: when Node::split returns an error, the cached pages of the split
\* node and of the new node are what they were before the call; when it
\* returns Ok, both pages are the rewritten ones: each holds its share of
\* the cells, in the slots from the header on, and neither is empty.
C22_SplitIsBuffered ==
    [][/\ SplitFailed => cache' = cache
       /\ SplitDone
              => \A n \in {last'.node, last'.other} :
                     /\ cache'[n].num_cells > 0
                     /\ PairsIn(cache'[n]) \subseteq
                            PairsIn(cache[last'.node]) \cup {last'.cell}
                     /\ cache'[n].free_start =
                            LEAF_HEADER_SIZE + cache'[n].num_cells * LEAF_KEY_CELL_SIZE]_vars

\* a split has failed with HasOverflow after cells were inserted again
C22_Witness ==
    /\ last.op = "split" /\ last.res = "HasOverflow"
    /\ cache[last.node].num_cells = 3
    /\ cache[last.other] = BuildPage(Leaf, FALSE)

\* the number of the page that Cursor::insert comes to for identifier
RECURSIVE LeafPageFor(_, _, _, _)
LeafPageFor(t, cur, identifier, fuel) ==
    LET f == find_node(t, cur, identifier)
    IN  IF t.cache[cur.node].kind = Leaf \/ f.res # "Ok" \/ fuel = 0
        THEN cur.node
        ELSE LeafPageFor(f.t, f.cur, identifier, fuel - 1)

TargetPage(t, identifier) ==
    LeafPageFor(CursorNew(t).t, CursorNew(t).cur, identifier, t.num_pages)

\* an insert has split a leaf: the page it created holds cells
LeafIsSplit ==
    /\ pc = "prompt" /\ last'.op = "insert"
    /\ CursorNew(Tbl).res = "Ok"
    /\ num_pages' > num_pages
    /\ PageOf(Tbl', num_pages).num_cells > 0

\* the page that holds the split leaf after the insert: the leaf's own page,
\* or the page of the copy under the new root when the leaf was the root
SplitLeafAfter ==
    IF PageOf(Tbl, 0).kind = Leaf /\ num_pages' = num_pages + 2
    THEN num_pages + 1 ELSE TargetPage(Tbl, last'.key)

\* C23: after an insert has split a leaf A into A and the new leaf A', the
\* next sibling of A is the page of A' and the next sibling of A' is the
\* next sibling A had before; when A was the root, the same holds for the
\* copy of A under the new root.
C23_SplitLinksSiblings ==
    [][LeafIsSplit
           => /\ PageOf(Tbl', SplitLeafAfter).kind = Leaf
              /\ next_sibling(PageOf(Tbl', SplitLeafAfter)) = num_pages
              /\ next_sibling(PageOf(Tbl', num_pages)) =
                     next_sibling(PageOf(Tbl, TargetPage(Tbl, last'.key)))]_vars

\* a leaf that had a next sibling was split, and the new leaf has it now
C23_Witness ==
    /\ last.op = "insert" /\ last.res = "Ok"
    /\ num_pages > 3
    /\ next_sibling(PageOf(Tbl, num_pages - 1)) # LEAF_NEXT_SIBLING_POINTER_DEFAULT
    /\ \E m \in 1..(num_pages - 2) :
           /\ PageOf(Tbl, m).kind = Leaf
           /\ next_sibling(PageOf(Tbl, m)) = num_pages - 1

\* the pages that decode as root
RootPages == {n \in 0..(num_pages - 1) : is_root(PageOf(Tbl, n)) = "true"}

\* every key of leaf page m is smaller than every key of its next sibling
SiblingIsAbove(m) ==
    \/ PageOf(Tbl, m).kind # Leaf
    \/ next_sibling(PageOf(Tbl, m)) = LEAF_NEXT_SIBLING_POINTER_DEFAULT
    \/ next_sibling(PageOf(Tbl, m)) >= num_pages
    \/ \A a \in KeysIn(PageOf(Tbl, m)) :
           \A b \in KeysIn(PageOf(Tbl, next_sibling(PageOf(Tbl, m)))) : a < b

\* C24: at the prompt exactly one page decodes as root, and in a tree of
\* more than one level every key of a leaf is smaller than every key of the
\* leaf's next sibling.
C24_OneRootLeavesInOrder ==
    Running
        => /\ Cardinality(RootPages) = 1
           /\ MultiLevel(Tbl) => \A m \in 0..(num_pages - 1) : SiblingIsAbove(m)

\* the layout of a leaf page: keys ascending, the slots end where the free
\* space starts, and every value lies between the free space and the end
LeafIsLaidOut(p) ==
    /\ \A i \in 0..(p.num_cells - 2) : SlotAt(p, i).key < SlotAt(p, i + 1).key
    /\ p.free_start <= p.free_end
    /\ (p.free_start - LEAF_HEADER_SIZE) % LEAF_KEY_CELL_SIZE = 0
    /\ p.num_cells = (p.free_start - LEAF_HEADER_SIZE) \div LEAF_KEY_CELL_SIZE
    /\ \A i \in 0..(p.num_cells - 1) :
           SlotAt(p, i).ptr >= p.free_end /\ SlotAt(p, i).ptr < PAGE_SIZE

\* C25: in every state every leaf page has its keys in strictly ascending
\* order, free-space-start <= free-space-end, as many cells as there are
\* slots of 17 bytes between the header and free-space-start, and every
\* value pointer in [free-space-end, PAGE_SIZE).
C25_LeafLayout ==
    \A n \in 0..(num_pages - 1) :
        PageOf(Tbl, n).kind = Leaf => LeafIsLaidOut(PageOf(Tbl, n))

\* an insert has just split the root leaf: both halves hold two cells
C25_Witness ==
    /\ last.op = "insert" /\ last.res = "Ok"
    /\ num_pages = 3
    /\ PageOf(Tbl, 0).kind = Internal
    /\ PageOf(Tbl, 1).kind = Leaf /\ PageOf(Tbl, 1).num_cells = 2
    /\ PageOf(Tbl, 2).kind = Leaf /\ PageOf(Tbl, 2).num_cells = 2
    /\ last.key \in KeysIn(PageOf(Tbl, 1)) \cup KeysIn(PageOf(Tbl, 2))

\* the layout of an internal page: separators ascending, and a right-most
\* child when there are cells
InternalIsLaidOut(p) ==
    /\ \A i \in 0..(p.num_cells - 2) : CellAt(p, i).key < CellAt(p, i + 1).key
    /\ p.num_cells > 0 => p.right_child # 0

\* C26: in every state every internal page has its cells in strictly
\* ascending order of separator key, and a nonzero right-most-child pointer
\* when it has cells.
C26_InternalLayout ==
    \A n \in 0..(num_pages - 1) :
        PageOf(Tbl, n).kind = Internal => InternalIsLaidOut(PageOf(Tbl, n))

\* C27: insert_cell with a key that the node holds returns DuplicateKey, also
\* when the node is full; when insert_cell returns DuplicateKey or IsFull
\* the page and its cell count are what they were.
C27_DuplicateBeforeSpace ==
    [][last'.op = "insert_cell"
           => /\ last'.cell.key \in KeysIn(cache[last'.node])
                     => last'.res = "DuplicateKey"
              /\ last'.res \in {"DuplicateKey", "IsFull"}
                     => cache'[last'.node] = cache[last'.node]]_vars

\* insert_cell of a key of a full leaf has returned DuplicateKey
C27_Witness ==
    /\ last.op = "insert_cell" /\ last.res = "DuplicateKey"
    /\ check_has_space(cache[last.node]) = "IsFull"
    /\ last.cell.key \in KeysIn(cache[last.node])

\* C28: insert_cell of a key that a leaf does not hold returns IsFull exactly
\* when free-space-end - free-space-start <= 2 * LEAF_KEY_CELL_SIZE, and an
\* insert that is accepted leaves free-space-start <= free-space-end, with
\* every value at or above free-space-end.
C28_FullBeforeOverlap ==
    [][(last'.op = "insert_cell" /\ cache[last'.node].kind = Leaf)
           => /\ last'.res # "DuplicateKey"
                     => (last'.res = "IsFull"
                            <=> cache[last'.node].free_end - cache[last'.node].free_start
                                    <= 2 * LEAF_KEY_CELL_SIZE)
              /\ last'.res = "Ok"
                     => /\ cache'[last'.node].free_start <= cache'[last'.node].free_end
                        /\ cache'[last'.node].num_cells = cache[last'.node].num_cells + 1
                        /\ \A i \in 0..(cache'[last'.node].num_cells - 1) :
                               SlotAt(cache'[last'.node], i).ptr
                                   >= cache'[last'.node].free_end]_vars

\* a leaf with free space left, of at most two slots, has returned IsFull
\* for a key it does not hold
C28_Witness ==
    /\ last.op = "insert_cell" /\ last.res = "IsFull"
    /\ cache[last.node].free_end - cache[last.node].free_start > 0
    /\ cache[last.node].free_end - cache[last.node].free_start <= 2 * LEAF_KEY_CELL_SIZE
    /\ last.cell.key \notin KeysIn(cache[last.node])

\* C29: after an insert has split a leaf, neither the split leaf nor the new
\* leaf is full: each has free-space-end - free-space-start > 2 *
\* LEAF_KEY_CELL_SIZE.
C29_SplitLeavesRoom ==
    [][(LeafIsSplit /\ last'.res = "Ok")
           => /\ check_has_space(PageOf(Tbl', SplitLeafAfter)) = "Ok"
              /\ check_has_space(PageOf(Tbl', num_pages)) = "Ok"]_vars

\* insert_cell on an internal node, with a key above every key of the node
LandsAtEnd ==
    /\ last'.op = "insert_cell"
    /\ cache[last'.node].kind = Internal
    /\ find_cell_num(cache[last'.node], last'.cell.key) = cache[last'.node].num_cells

\* C30: insert_cell on an internal node, of a cell whose key lands at index
\* num_cells, sets the right-most child to the pointer of the cell; when the
\* node had a right-most child, a cell with that child is added and the cell
\* count grows by one, and when it had none the cell count stays.
C30_InsertAtEnd ==
    [][LandsAtEnd
           => /\ last'.res = "Ok"
              /\ cache'[last'.node].right_child = last'.cell.pointer
              /\ IF cache[last'.node].right_child # 0
                 THEN /\ cache'[last'.node].num_cells = cache[last'.node].num_cells + 1
                      /\ CellAt(cache'[last'.node], cache[last'.node].num_cells) =
                             [key |-> last'.cell.key,
                              pointer |-> cache[last'.node].right_child]
                 ELSE cache'[last'.node].num_cells = cache[last'.node].num_cells]_vars

(***************************************************************************)
(* btree.rs, find_cell_num on a leaf of up to seven cells: the cells are   *)
(* inserted with insert_cell, in every order, with values of 500 bytes.    *)
(***************************************************************************)
\* the keys of the cells are 0..MaxKeySearch
MaxKeySearch == 4

SearchCells ==
    {LeafCellOf(identifier, [len |-> 500, val |-> "e"]) : identifier \in 0..MaxKeySearch}

NextSearch == \E cell \in SearchCells : NodeInsert(0, cell)

SpecSearch == InitNode /\ [][NextSearch]_vars

\* the keys of the leaf are in strictly ascending order
KeysAscend(p) == \A i \in 0..(p.num_cells - 2) : SlotAt(p, i).key < SlotAt(p, i + 1).key

\* the number of cells of the leaf with a key below key
KeysBelow(p, key) == Cardinality({i \in 0..(p.num_cells - 1) : SlotAt(p, i).key < key})

\* C31: on a leaf with strictly ascending keys find_cell_num returns the
\* index of the cell that holds the key when the key is present, and the
\* number of keys below the key, an index in [0, num_cells], when it is not.
C31_LeafLowerBound ==
    (cache[0].kind = Leaf /\ KeysAscend(cache[0]))
        => \A key \in 0..(MaxKeySearch + 1) :
               /\ find_cell_num(cache[0], key) \in 0..cache[0].num_cells
               /\ find_cell_num(cache[0], key) = KeysBelow(cache[0], key)
               /\ key \in KeysIn(cache[0])
                      => SlotAt(cache[0], find_cell_num(cache[0], key)).key = key

\* a leaf of five cells, searched for keys it holds and a key above them
C31_Witness ==
    /\ cache[0].kind = Leaf
    /\ cache[0].num_cells = 5
    /\ find_cell_num(cache[0], 3) = 3
    /\ find_cell_num(cache[0], MaxKeySearch + 1) = cache[0].num_cells

\* the separators of the internal node are in ascending order
SeparatorsAscend(p) ==
    \A i \in 0..(p.num_cells - 2) : CellAt(p, i).key <= CellAt(p, i + 1).key

\* the indexes of the separators that are at or above key
AtOrAbove(p, key) == {i \in 0..(p.num_cells - 1) : key <= CellAt(p, i).key}

\* C32: on an internal node with ascending separators find_cell_num returns
\* the smallest index whose separator is at or above the key, and num_cells
\* when no separator is.
C32_InternalLowerBound ==
    \A n \in DOMAIN cache :
        (cache[n].kind = Internal /\ SeparatorsAscend(cache[n]))
            => \A key \in 0..(MaxKeyNode + 1) :
                   IF AtOrAbove(cache[n], key) = {}
                   THEN find_cell_num(cache[n], key) = cache[n].num_cells
                   ELSE /\ find_cell_num(cache[n], key) \in AtOrAbove(cache[n], key)
                        /\ \A i \in AtOrAbove(cache[n], key) :
                               find_cell_num(cache[n], key) <= i

\* an internal node of three cells, searched for a separator and for a key
\* above every separator
C32_Witness ==
    /\ 1 \in DOMAIN cache
    /\ cache[1].kind = Internal
    /\ cache[1].num_cells = 3
    /\ find_cell_num(cache[1], CellAt(cache[1], 1).key) = 1
    /\ find_cell_num(cache[1], MaxKeyNode + 1) = 3

\* the pages on the chain of next-sibling pointers that starts at page n; the
\* chain is cut after fuel pages
RECURSIVE ChainFrom(_, _)
ChainFrom(n, fuel) ==
    IF n = LEAF_NEXT_SIBLING_POINTER_DEFAULT \/ n \notin 0..(num_pages - 1) \/ fuel = 0
    THEN << >>
    ELSE <<n>> \o ChainFrom(next_sibling(PageOf(Tbl, n)), fuel - 1)

\* the leaf that the first loop of select comes to
LeftMostLeaf == SelectDescend(CursorNew(Tbl).t, CursorNew(Tbl).cur, num_pages).cur.node

LeafChain == ChainFrom(LeftMostLeaf, num_pages + 1)

\* the rows of the cells of the pages of a chain, in the order of the chain
RECURSIVE RowsOfChain(_)
RowsOfChain(chain) ==
    IF chain = << >> THEN << >>
    ELSE [i \in 1..PageOf(Tbl, Head(chain)).num_cells |->
              [key |-> SlotAt(PageOf(Tbl, Head(chain)), i - 1).key,
               val |-> SlotAt(PageOf(Tbl, Head(chain)), i - 1).val]]
         \o RowsOfChain(Tail(chain))

\* the leaves of the tree: the root, or the pages the root points at
LeavesOfTree ==
    IF PageOf(Tbl, root).kind = Leaf THEN {root}
    ELSE {CellAt(PageOf(Tbl, root), i).pointer : i \in 0..(PageOf(Tbl, root).num_cells - 1)}
             \cup {PageOf(Tbl, root).right_child}

\* C33: a select returns: it comes to the left-most leaf and follows the
\* next-sibling pointers, a chain without a cycle that ends with the
\* sentinel and holds every leaf of the tree once, reads the cells of each
\* leaf of the chain in turn, and ends; on an empty tree it returns no row.
C33_SelectTerminates ==
    last.op = "select"
        => /\ last.res = "Ok"
           /\ Running
           /\ Len(LeafChain) <= num_pages
           /\ \A i, j \in 1..Len(LeafChain) : LeafChain[i] = LeafChain[j] => i = j
           /\ next_sibling(PageOf(Tbl, LeafChain[Len(LeafChain)])) =
                  LEAF_NEXT_SIBLING_POINTER_DEFAULT
           /\ LeavesOfTree \subseteq {LeafChain[i] : i \in 1..Len(LeafChain)}
           /\ last.rows = RowsOfChain(LeafChain)
           /\ (PageOf(Tbl, root).kind = Leaf /\ PageOf(Tbl, root).num_cells = 0)
                  => last.rows = << >>

\* a select has run over a chain of three leaves
C33_Witness ==
    /\ last.op = "select" /\ last.res = "Ok"
    /\ Len(LeafChain) = 3
    /\ Len(last.rows) >= 5

\* the cursor of Cursor::insert when it has come to the leaf for identifier
RECURSIVE CursorFor(_, _, _, _)
CursorFor(t, cur, identifier, fuel) ==
    LET f == find_node(t, cur, identifier)
    IN  IF t.cache[cur.node].kind = Leaf \/ f.res # "Ok" \/ fuel = 0
        THEN cur
        ELSE CursorFor(f.t, f.cur, identifier, fuel - 1)

CursorAtLeaf(t, identifier) ==
    CursorFor(CursorNew(t).t, CursorNew(t).cur, identifier, t.num_pages)

\* an insert runs Cursor::split on a leaf that is not the root
SplitsChild ==
    /\ pc = "prompt" /\ last'.op = "insert"
    /\ CursorNew(Tbl).res = "Ok"
    /\ PageOf(Tbl, root).kind = Internal
    /\ TargetLeaf(Tbl, last'.key).kind = Leaf
    /\ insert_cell(TargetLeaf(Tbl, last'.key),
                   LeafCellOf(last'.key, last'.content)).res = "IsFull"

\* C34: when an insert runs the split on a leaf that is not the root, the
\* last entry of the breadcrumb is the page of that leaf with the index of
\* the parent's cell the descent took, and the entry below it holds the page
\* of the leaf's parent: the cell of that page at the index points at the leaf.
C34_BreadcrumbIsPath ==
    [][SplitsChild
           => LET cur == CursorAtLeaf(Tbl, last'.key)
                  n == Len(cur.page_breadcrumb)
              IN  /\ n >= 2
                  /\ cur.page_breadcrumb[1] = <<0, root>>
                  /\ cur.page_breadcrumb[n][2] = cur.node
                  /\ cur.node = TargetPage(Tbl, last'.key)
                  /\ PageOf(Tbl, cur.page_breadcrumb[n - 1][2]).kind = Internal
                  /\ cur.page_breadcrumb[n][1] =
                         find_cell_num(PageOf(Tbl, cur.page_breadcrumb[n - 1][2]), last'.key)
                  /\ read_internal_cell(PageOf(Tbl, cur.page_breadcrumb[n - 1][2]),
                                        cur.page_breadcrumb[n][1]).pointer = cur.node]_vars

\* an insert has split a leaf that was not the root's right-most child
C34_Witness ==
    /\ last.op = "insert" /\ last.res = "Ok"
    /\ num_pages > 4
    /\ PageOf(Tbl, root).kind = Internal
    /\ PageOf(Tbl, root).right_child # num_pages - 1
    /\ PageOf(Tbl, num_pages - 1).kind = Leaf
    /\ last.key \in KeysIn(PageOf(Tbl, num_pages - 1))

(***************************************************************************)
(* btree.rs, Node::update on an internal node that insert_cell has filled. *)
(* update is the last call of a run.                                       *)
(***************************************************************************)
\* the cells handed to update: their pointer is none of NodePointers
UpdateCells == {[key |-> 0, pointer |-> 3], [key |-> MaxKeyNode, pointer |-> 3]}

\* Node::load(page n).update(identifier, cell); other is the identifier
NodeUpdate(n, identifier, cell) ==
    /\ pc = "prompt"
    /\ n \in DOMAIN cache
    /\ cache[n].kind = Internal
    /\ \E r \in {update(cache[n], identifier, cell)} :
           /\ cache' = [cache EXCEPT ![n] = r.page]
           /\ pc' = IF r.res = "panic" THEN "panicked" ELSE "exited"
           /\ last' = NodeCalled("update", n, identifier, cell, r.res)
    /\ UNCHANGED <<num_pages, root_page, out, root, history>>

NextUpdate ==
    \/ NodeCreate(Internal)
    \/ \E cell \in InternalCells : NodeInsert(1, cell)
    \/ \E identifier \in 0..MaxKeyNode, cell \in UpdateCells : NodeUpdate(1, identifier, cell)

SpecUpdate == InitNode /\ [][NextUpdate]_vars

\* the indexes of the cells of an internal node whose separator is key
CellsWithKey(p, key) == {i \in 0..(p.num_cells - 1) : CellAt(p, i).key = key}

\* C35: update(key, cell) on an internal node without a separator equal to
\* key returns KeyDoesNotExist and leaves the node as it was; with such a
\* separator it returns Ok and the node differs from before in that cell
\* alone, which holds the key and the pointer of cell.
C35_UpdateOneCell ==
    [][last'.op = "update"
           => IF CellsWithKey(cache[last'.node], last'.other) = {}
              THEN /\ last'.res = "KeyDoesNotExist"
                   /\ cache' = cache
              ELSE /\ last'.res = "Ok"
                   /\ \E i \in CellsWithKey(cache[last'.node], last'.other) :
                          cache'[last'.node] =
                              [cache[last'.node] EXCEPT !.cells[i + 1] = last'.cell]]_vars

\* how many child pointers and right-most-child pointers of the internal
\* pages refer to page m
References(m) ==
    Cardinality({<<n, i>> \in (0..(num_pages - 1)) \X (0..INTERNAL_MAX_KEYS) :
                     /\ PageOf(Tbl, n).kind = Internal
                     /\ \/ i < PageOf(Tbl, n).num_cells
                              /\ CellAt(PageOf(Tbl, n), i).pointer = m
                        \/ i = PageOf(Tbl, n).num_cells
                              /\ PageOf(Tbl, n).right_child = m})

MaxKeyCursor == 3

MaxPagesCursor == 4

\* last.cur is the cursor the host holds when last.held
CursorCalled(op, identifier, res, cur, held) ==
    [op |-> op, key |-> identifier, content |-> HostContent, res |-> res,
     rows |-> << >>, cur |-> cur, held |-> held]

\* Cursor::new(&mut table), then cursor.insert(identifier, content)
CursorFresh(identifier) ==
    /\ pc = "prompt"
    /\ \E r \in {ExecInsert(Tbl, identifier, HostContent)} :
           /\ r.t.num_pages <= MaxPagesCursor
           /\ Becomes(r.t)
           /\ pc' = AfterCall(r.res)
           /\ last' = CursorCalled("insert", identifier, r.res,
                                   CursorAtLeaf(Tbl, identifier),
                                   r.res # "panic" /\ r.t.num_pages = num_pages)
    /\ UNCHANGED history

\* Cursor::new(&mut table), then cursor.select()
CursorScan ==
    /\ pc = "prompt"
    /\ \E r \in {ExecSelect(Tbl)} :
           /\ Becomes(r.t)
           /\ pc' = AfterCall(r.res)
           /\ last' = CursorCalled("select", 0, r.res, r.cur, r.res = "Ok")
    /\ UNCHANGED history

\* cursor.insert(identifier, content) on the cursor the host holds
CursorAgain(identifier) ==
    /\ pc = "prompt"
    /\ last.held
    /\ \E r \in {CursorInsert(Tbl, last.cur, identifier, HostContent, num_pages)} :
           /\ r.t.num_pages <= MaxPagesCursor
           /\ Becomes(r.t)
           /\ pc' = AfterCall(r.res)
           /\ last' = CursorCalled("insert again", identifier, r.res,
                                   CursorFor(Tbl, last.cur, identifier, num_pages),
                                   r.res # "panic" /\ r.t.num_pages = num_pages)
    /\ UNCHANGED history

\* table.flush_contents(), which the host can call when it holds no cursor
CursorFlush ==
    /\ pc = "prompt"
    /\ last.op # "flush"
    /\ Becomes(flush_cache(Tbl))
    /\ last' = CursorCalled("flush", 0, "Ok", NoCursor, FALSE)
    /\ UNCHANGED <<pc, history>>

InitCursor ==
    /\ num_pages = TableNew(<< >>).num_pages
    /\ root_page = TableNew(<< >>).root_page
    /\ cache = TableNew(<< >>).cache
    /\ out = TableNew(<< >>).out
    /\ root = TableNew(<< >>).root
    /\ pc = "prompt"
    /\ last = CursorCalled("open", 0, "Ok", NoCursor, FALSE)
    /\ history = NoHistory

NextCursor ==
    \/ \E identifier \in 0..MaxKeyCursor : CursorFresh(identifier)
    \/ CursorScan
    \/ \E identifier \in 0..MaxKeyCursor : CursorAgain(identifier)
    \/ CursorFlush

SpecCursor == InitCursor /\ [][NextCursor]_vars

\* C37: an insert through a cursor that has done an insert or a select
\* before returns what the insert through a new cursor returns, and leaves
\* the pages that the insert through a new cursor leaves.
C37_CursorHasNoMemory ==
    [][last'.op = "insert again"
           => /\ last'.res = ExecInsert(Tbl, last'.key, last'.content).res
              /\ num_pages' = ExecInsert(Tbl, last'.key, last'.content).t.num_pages
              /\ \A n \in 0..(num_pages' - 1) :
                     PageOf(Tbl', n) =
                         PageOf(ExecInsert(Tbl, last'.key, last'.content).t, n)]_vars

(***************************************************************************)
(* Node::set_is_root                                                       *)
(***************************************************************************)
\* set_is_root(val): writes bool_to_u8(self.is_root()) at PAGE_IS_ROOT_OFFSET;
\* val is not read. is_root() unwraps u8_to_bool, which panics on Err.
set_is_root(p, val) ==
    IF is_root(p) = "Err" THEN [res |-> "panic", page |-> p]
    ELSE [res |-> "Ok", page |-> [p EXCEPT !.is_root = bool_to_u8(is_root(p) = "true")]]

\* Node::load(page n).set_is_root(flag)
NodeSetIsRoot(n, flag) ==
    /\ pc = "prompt"
    /\ n \in DOMAIN cache
    /\ \E r \in {set_is_root(cache[n], flag)} :
           /\ cache' = [cache EXCEPT ![n] = r.page]
           /\ pc' = AfterCall(r.res)
           /\ last' = NodeCalled(IF flag THEN "set_is_root(true)" ELSE "set_is_root(false)",
                                 n, n, ZeroCell, r.res)
    /\ UNCHANGED <<num_pages, root_page, out, root, history>>

NextIsRoot ==
    \/ NodeCreate(Leaf)
    \/ \E cell \in SearchCells : NodeInsert(0, cell)
    \/ \E n \in 0..(MaxPagesNode - 1), flag \in BOOLEAN : NodeSetIsRoot(n, flag)

SpecIsRoot == InitNode /\ [][NextIsRoot]_vars

\* C38: after set_is_root(flag) on a page, is_root() of that page returns
\* flag, whether the page was a root before or not.
C38_SetIsRootSets ==
    [][/\ last'.op = "set_is_root(true)" => is_root(cache'[last'.node]) = "true"
       /\ last'.op = "set_is_root(false)" => is_root(cache'[last'.node]) = "false"]_vars

(***************************************************************************)
(* The cell past the last one of an internal node.                         *)
(***************************************************************************)
\* the separator keys of an internal node
SeparatorsOf(p) == {CellAt(p, i).key : i \in 0..(p.num_cells - 1)}

\* an insert of a key above every separator of the root, an internal node
AboveSeparators ==
    /\ pc = "prompt" /\ last'.op = "insert"
    /\ CursorNew(Tbl).res = "Ok"
    /\ PageOf(Tbl, root).kind = Internal
    /\ \A k \in SeparatorsOf(PageOf(Tbl, root)) : k < last'.key

\* C39: on an internal node read_cell_bytes gives the cell (separator, child
\* page) at an index below num_cells, and at the index num_cells the high
\* key of the node with its right-most child; the descent for a key above
\* every separator reads at num_cells and loads the right-most child, where
\* an insert without a split puts the key.
C39_PastLastIsRightChild ==
    [][AboveSeparators
           => LET t == CursorNew(Tbl).t
                  cur == CursorNew(Tbl).cur
                  p == PageOf(Tbl, root)
              IN  /\ \A i \in 0..(p.num_cells - 1) :
                         read_internal_cell(p, i) = p.cells[i + 1]
                  /\ SeparatorsOf(p) # {}
                  /\ read_internal_cell(p, p.num_cells).pointer = p.right_child
                  /\ read_internal_cell(p, p.num_cells).key \in SeparatorsOf(p)
                  /\ \A k \in SeparatorsOf(p) : k <= read_internal_cell(p, p.num_cells).key
                  /\ find_cell_num(p, last'.key) = p.num_cells
                  /\ find_node(t, cur, last'.key).res = "Ok"
                         => find_node(t, cur, last'.key).cur.node = p.right_child
                  /\ last'.res = "Ok" /\ num_pages' = num_pages
                         => last'.key \in KeysIn(PageOf(Tbl', p.right_child))]_vars

\* an insert above every separator has gone into the right-most child, a
\* leaf that is not the child of the last cell
C39_Witness ==
    /\ last.op = "insert" /\ last.res = "Ok"
    /\ PageOf(Tbl, root).kind = Internal
    /\ PageOf(Tbl, root).num_cells > 0
    /\ \A k \in SeparatorsOf(PageOf(Tbl, root)) : k < last.key
    /\ PageOf(Tbl, root).right_child
           # CellAt(PageOf(Tbl, root), PageOf(Tbl, root).num_cells - 1).pointer
    /\ PageOf(Tbl, PageOf(Tbl, root).right_child).num_cells = 3
    /\ last.key \in KeysIn(PageOf(Tbl, PageOf(Tbl, root).right_child))

=============================================================================
